---------------------------- MODULE Spec2Model ----------------------------
(***************************************************************************)
(* Model of appe, the Alerting Policy Price Estimator.                     *)
(*                                                                         *)
(*   Execute                  the pipeline: source generators, three       *)
(*                            worker pools joined by four buffered         *)
(*                            channels, the coordinator that closes the    *)
(*                            channels, and the consumer of policiesOut.   *)
(*   monitoring.go            listProjects, verifyProjectPermissions,      *)
(*                            listAlertPolicies, processAlertPolicy.       *)
(*                                                                         *)
(* Spec      is the whole pipeline; a worker of the evaluation pool runs   *)
(*           processAlertPolicy as one step between its receive and its    *)
(*           send.                                                         *)
(* SpecEval  is one call of processAlertPolicy, one iterator call per      *)
(*           step, against a provider whose answers are fixed in Init.     *)
(***************************************************************************)
EXTENDS Integers, Sequences, FiniteSets, Bags, TLC

VARIABLES
    \* configuration, as parsed from the flags (Execute, lines 61-112)
    projects, folders, organizations, policies,
    threads, recursive, testPermissions, includeDisabled, excludedFolders,
    \* channels (Execute, lines 119-122)
    projectsIn, projectsTested, policiesIn, policiesOut,
    \* goroutines of Execute
    main,          \* position of the main goroutine
    genProjects,   \* generator of Execute, lines 160-165
    genParents,    \* generators of Execute, lines 171-176 and 179-184, by kind
    genPolicies,   \* fetcher of Execute, lines 194-205
    pool1, pool2, pool3,   \* the three pools: how many workers wait at the
                           \* receive, what the others hold, how many left
    wg1, wg2, wg3,         \* the three WaitGroups
    coordinator,           \* position of the goroutine of Execute, lines 248-258
    halt,          \* "" while the process runs; else why it stopped
    \* history of the run
    hist,
    \* one call of processAlertPolicy (SpecEval)
    ev

cfgVars  == <<projects, folders, organizations, policies,
              recursive, testPermissions, includeDisabled, excludedFolders>>
chanVars == <<projectsIn, projectsTested, policiesIn, policiesOut>>
genVars  == <<genProjects, genParents, genPolicies>>
poolVars == <<pool1, pool2, pool3>>
wgVars   == <<wg1, wg2, wg3>>
pipeVars == <<cfgVars, threads, chanVars, main, genVars, poolVars, wgVars,
              coordinator, halt, hist>>
vars     == <<pipeVars, ev>>

-----------------------------------------------------------------------------
(* Bounds of the model.                                                    *)

\* largest value of the --threads flag
MaxThreads == 2
\* largest number of identifiers given to one scan-root flag
MaxRoots == 2
\* largest number of time series a query returns
MaxRows == 2
\* largest number of conditions of a policy evaluated under SpecEval
MaxConds == 2

-----------------------------------------------------------------------------
(* Small helpers.                                                          *)

\* a nil pointer is the empty sequence, a non-nil one holds its referent
Nil == <<>>
Some(x) == <<x>>
Deref(p) == p[1]

Max(a, b) == IF a > b THEN a ELSE b

SeqsUpTo(S, n) == UNION {[1..k -> S] : k \in 0..n}

RECURSIVE SumOver(_, _)
SumOver(f, S) ==
    IF S = {} THEN 0
    ELSE LET x == CHOOSE y \in S : TRUE IN f[x] + SumOver(f, S \ {x})

-----------------------------------------------------------------------------
(* Resource names.  A name is the sequence of its "/"-separated segments:  *)
(* "folders/f1" is <<"folders", "f1">>.                                    *)

\* "folders/"+folders[i], "organizations/"+organizations[i], "projects/"+projectId
Prefixed(kind, id) == <<kind, id>>

\* parent[strings.Index(parent, "/")+1:] : what follows the first "/"
AfterFirstSlash(name) == Tail(name)

\* a bare identifier as the flags give it: a name of one segment
Bare(id) == <<id>>

\* s1[:strings.Index(s1, "/")] of getProjectId, s1 being what follows the
\* first "/" of the policy name
getProjectId(alertPolicy) == Head(AfterFirstSlash(alertPolicy.name))


-----------------------------------------------------------------------------
(* The provider: the resource hierarchy, the IAM answers and the alerting  *)
(* policies the API clients return.  Whether a call fails is chosen where  *)
(* the call is made.                                                       *)
(*                                                                         *)
(*     organizations/o1 -- pa                                              *)
(*           folders/f1 -- pb                                              *)
(*              folders/f2 -- pc                                           *)

OrganizationIds == {"o1"}
FolderIds == {"f1", "f2"}
ProjectIds == {"pa", "pb", "pc"}

\* what projectsClient.ListProjects yields for a parent, in order
ListProjectsResult(parent) ==
    CASE parent = <<"organizations", "o1">> -> <<"pa">>
      [] parent = <<"folders", "f1">> -> <<"pb">>
      [] parent = <<"folders", "f2">> -> <<"pc">>
      [] OTHER -> <<>>

\* what foldersClient.ListFolders yields for a parent: folder.Name, in order
ListFoldersResult(parent) ==
    CASE parent = <<"organizations", "o1">> -> << <<"folders", "f1">> >>
      [] parent = <<"folders", "f1">> -> << <<"folders", "f2">> >>
      [] OTHER -> <<>>

\* the permissions verifyProjectPermissions asks for, in the declared order
RequiredPermissions ==
    <<"monitoring.timeSeries.list", "monitoring.alertPolicies.get",
      "monitoring.alertPolicies.list">>

\* what projectsClient.TestIamPermissions answers for "projects/"+projectId
TestIamPermissionsResult(resource) ==
    CASE resource = <<"projects", "pa">> ->
            [err |-> "", permissions |-> {"monitoring.timeSeries.list",
                "monitoring.alertPolicies.get", "monitoring.alertPolicies.list"}]
      [] resource = <<"projects", "pb">> ->
            [err |-> "", permissions |-> {"monitoring.timeSeries.list",
                "monitoring.alertPolicies.get"}]
      [] OTHER -> [err |-> "permission denied", permissions |-> {}]

\* the reducers of the aggregations of a condition
Reducers == {"REDUCE_NONE", "REDUCE_SUM", "REDUCE_COUNT_FALSE"}

\* a condition: the populated variant of the oneof ("none": no recognized
\* variant), the evaluation interval of a PromQL condition, the
\* cross-series reducers of the aggregations of a threshold or absence one
Condition(variant, seconds, aggregations) ==
    [variant |-> variant, seconds |-> seconds, aggregations |-> aggregations]

AlertPolicy(projectId, id, enabled, conditions) ==
    [name |-> <<"projects", projectId, "alertPolicies", id>>,
     displayName |-> id, enabled |-> enabled, conditions |-> conditions]

\* the enabled flag is a wrapper: absent (nil), or present with a value
PolA1 == AlertPolicy("pa", "a1", "true", <<Condition("mql", 0, <<>>)>>)
PolA2 == AlertPolicy("pa", "a2", "absent", <<>>)
PolB1 == AlertPolicy("pb", "b1", "false", <<Condition("threshold", 0, <<>>)>>)
PolC1 == AlertPolicy("pc", "c1", "true", <<Condition("pql", 60, <<>>)>>)

\* what alertingPolicyClient.ListAlertPolicies yields for a project, in order
ListAlertPoliciesResult(resource) ==
    CASE resource = <<"projects", "pa">> -> <<PolA1, PolA2>>
      [] resource = <<"projects", "pb">> -> <<PolB1>>
      [] resource = <<"projects", "pc">> -> <<PolC1>>
      [] OTHER -> <<>>

WorldPolicies == {PolA1, PolA2, PolB1, PolC1}
PolicyNames == {p.name : p \in WorldPolicies}

\* what alertingPolicyClient.GetAlertPolicy answers when it does not fail
GetAlertPolicyResult(name) == CHOOSE p \in WorldPolicies : p.name = name

\* the policy names the --policy flag may hold
NamedPolicies == {PolA1.name, PolC1.name}

ErrorMessages == {"deadline exceeded", "permission denied"}

\* the answer of the provider to the query of one condition: rows time
\* series (result series, for PromQL), then iterator.Done if err is "" and
\* the error err otherwise.  A failed PromQL call yields no rows.
QueryOutcomes ==
    {[rows |-> k, err |-> e] : k \in 0..MaxRows, e \in {""} \cup ErrorMessages}

-----------------------------------------------------------------------------
(* processAlertPolicy (monitoring.go:123-239).                             *)
(* A price is a float64: finite, in units of 10^-7 dollar, or +Inf or NaN. *)

\* 1.5, the price of one condition (monitoring.go:140)
BasePrice == 15000000
\* 0.03024, the price of one time series (monitoring.go:162 and 233)
SeriesPrice == 302400
\* 0.9072, the price of one PromQL series at a step of one second (monitoring.go:192)
PqlPrice == 9072000

Float(v) == [cls |-> "fin", v |-> v]
PosInf == [cls |-> "inf", v |-> 0]
NaN == [cls |-> "nan", v |-> 0]

\* a + b
FAdd(a, b) ==
    IF a.cls = "nan" \/ b.cls = "nan" THEN NaN
    ELSE IF a.cls = "inf" \/ b.cls = "inf" THEN PosInf
    ELSE Float(a.v + b.v)

\* 0.9072 / float64(seconds) * float64(n); seconds is an int64 of either sign
PqlIncrement(seconds, n) ==
    IF seconds = 0 THEN (IF n = 0 THEN NaN ELSE PosInf)
    ELSE Float((PqlPrice \div seconds) * n)

GetConditionMonitoringQueryLanguage(c) == IF c.variant = "mql" THEN Some(c) ELSE Nil
GetConditionPrometheusQueryLanguage(c) == IF c.variant = "pql" THEN Some(c) ELSE Nil
GetConditionThreshold(c) == IF c.variant = "threshold" THEN Some(c) ELSE Nil
GetConditionAbsent(c) == IF c.variant = "absent" THEN Some(c) ELSE Nil

\* Aggregation.GetCrossSeriesReducer().String(); REDUCE_NONE on a nil aggregation
GetCrossSeriesReducer(aggregation) ==
    IF aggregation = Nil THEN "REDUCE_NONE" ELSE Deref(aggregation)

\* the record starting from 1.5 whatever the number of conditions
NewPolicyOutFlat(alertPolicy) ==
    [ProjectId |-> getProjectId(alertPolicy),
     Name |-> alertPolicy.name,
     DisplayName |-> alertPolicy.displayName,
     Conditions |-> Len(alertPolicy.conditions),
     TimeSeries |-> 0,
     Error |-> "",
     Price |-> Float(BasePrice)]

\* monitoring.go:132-141
NewPolicyOut(alertPolicy) ==
    [ProjectId |-> getProjectId(alertPolicy),
     Name |-> alertPolicy.name,
     DisplayName |-> alertPolicy.displayName,
     Conditions |-> Len(alertPolicy.conditions),
     TimeSeries |-> 0,
     Error |-> "",
     Price |-> Float(BasePrice * Len(alertPolicy.conditions))]

\* monitoring.go:162-163: one time series of an MQL query
AddSeriesMql(policyOut) ==
    [policyOut EXCEPT !.Price = FAdd(@, Float(SeriesPrice)), !.TimeSeries = @ + 1]

\* the threshold and absence branch counting a series without pricing it
AddSeriesTsUnpriced(policyOut) == [policyOut EXCEPT !.TimeSeries = @ + 1]

\* monitoring.go:233-234: one time series of a threshold or absence condition
AddSeriesTs(policyOut) ==
    [policyOut EXCEPT !.Price = FAdd(@, Float(SeriesPrice)), !.TimeSeries = @ + 1]

\* a failure that empties the record instead of only marking it
SetErrorAndReset(policyOut, err) ==
    [policyOut EXCEPT !.Error = err, !.Price = Float(0), !.TimeSeries = 0]

\* a failure recorded only when the record has no error yet
SetErrorOnce(policyOut, err) ==
    IF policyOut.Error = "" THEN [policyOut EXCEPT !.Error = err] ELSE policyOut

\* monitoring.go:158 and 229, 175, 180, 186
SetError(policyOut, err) == [policyOut EXCEPT !.Error = err]

\* the PromQL branch pricing a series like a row of the other branches,
\* whatever the step
AddPqlSeriesFlat(policyOut, seconds, n) ==
    [policyOut EXCEPT !.Price = FAdd(@, Float(SeriesPrice * n)),
                      !.TimeSeries = @ + n]

\* monitoring.go:192-193
AddPqlSeries(policyOut, seconds, n) ==
    [policyOut EXCEPT !.Price = FAdd(@, PqlIncrement(seconds, n)),
                      !.TimeSeries = @ + n]

\* the loop of monitoring.go:152-164, from row `row` on
RECURSIVE DrainMql(_, _, _)
DrainMql(policyOut, resp, row) ==
    IF row < resp.rows THEN DrainMql(AddSeriesMql(policyOut), resp, row + 1)
    ELSE IF resp.err # "" THEN SetError(policyOut, resp.err)
    ELSE policyOut

\* the loop of monitoring.go:223-235, from row `row` on
RECURSIVE DrainTs(_, _, _)
DrainTs(policyOut, resp, row) ==
    IF row < resp.rows THEN DrainTs(AddSeriesTs(policyOut), resp, row + 1)
    ELSE IF resp.err # "" THEN SetError(policyOut, resp.err)
    ELSE policyOut

\* the request escalating on the first aggregation only
ListTimeSeriesRequestPrimaryOnly(c) ==
    LET threshold == GetConditionThreshold(c)
        absent == GetConditionAbsent(c)
        a1 == IF threshold # Nil THEN Deref(threshold).aggregations ELSE <<>>
        aggregations == IF absent # Nil THEN Deref(absent).aggregations ELSE a1
        Aggregation == IF Len(aggregations) > 0 THEN Some(aggregations[1]) ELSE Nil
    IN  [api |-> "ListTimeSeries",
         Aggregation |-> Aggregation,
         SecondaryAggregation |->
            IF Len(aggregations) > 1 THEN Some(aggregations[2]) ELSE Nil,
         View |-> IF \/ Aggregation = Nil
                     \/ GetCrossSeriesReducer(Aggregation) = "REDUCE_COUNT_FALSE"
                  THEN "FULL" ELSE "HEADERS"]

\* monitoring.go:196-221: the request of a threshold or absence condition
ListTimeSeriesRequest(c) ==
    LET threshold == GetConditionThreshold(c)
        absent == GetConditionAbsent(c)
        a0 == <<>>
        a1 == IF threshold # Nil THEN Deref(threshold).aggregations ELSE a0
        aggregations == IF absent # Nil THEN Deref(absent).aggregations ELSE a1
        Aggregation == IF Len(aggregations) > 0 THEN Some(aggregations[1]) ELSE Nil
        SecondaryAggregation ==
            IF Len(aggregations) > 1 THEN Some(aggregations[2]) ELSE Nil
    IN  [api |-> "ListTimeSeries",
         Aggregation |-> Aggregation,
         SecondaryAggregation |-> SecondaryAggregation,
         View |-> IF \/ Aggregation = Nil
                     \/ GetCrossSeriesReducer(Aggregation) = "REDUCE_COUNT_FALSE"
                     \/ GetCrossSeriesReducer(SecondaryAggregation) = "REDUCE_COUNT_FALSE"
                  THEN "FULL" ELSE "HEADERS"]

\* monitoring.go:147-165
MqlBranch(policyOut, c, resp) ==
    IF GetConditionMonitoringQueryLanguage(c) # Nil
    THEN DrainMql(policyOut, resp, 0) ELSE policyOut

\* monitoring.go:166-194; skip is the `continue` of the error paths
PqlBranch(policyOut, c, resp) ==
    LET pql == GetConditionPrometheusQueryLanguage(c) IN
    IF pql = Nil THEN [policyOut |-> policyOut, skip |-> FALSE]
    ELSE IF resp.err # "" THEN [policyOut |-> SetError(policyOut, resp.err), skip |-> TRUE]
    ELSE [policyOut |-> AddPqlSeries(policyOut, Deref(pql).seconds, resp.rows),
          skip |-> FALSE]

\* monitoring.go:195-236
TimeSeriesBranch(policyOut, c, resp) ==
    IF GetConditionThreshold(c) # Nil \/ GetConditionAbsent(c) # Nil
    THEN DrainTs(policyOut, resp, 0) ELSE policyOut

\* one iteration of the loop of monitoring.go:142-237
EvalCondition(policyOut, c, resp) ==
    LET afterMql == MqlBranch(policyOut, c, resp)
        afterPql == PqlBranch(afterMql, c, resp)
    IN  IF afterPql.skip THEN afterPql.policyOut
        ELSE TimeSeriesBranch(afterPql.policyOut, c, resp)

\* the loop of monitoring.go:142-237 from condition i on; script[i] is the
\* answer of the provider to the query of condition i
RECURSIVE EvalConditions(_, _, _, _)
EvalConditions(policyOut, conditions, script, i) ==
    IF i > Len(conditions) THEN policyOut
    ELSE EvalConditions(EvalCondition(policyOut, conditions[i], script[i]),
                        conditions, script, i + 1)

\* the record processAlertPolicy sends (monitoring.go:132-238)
processAlertPolicy(alertPolicy, script) ==
    EvalConditions(NewPolicyOut(alertPolicy), alertPolicy.conditions, script, 1)

-----------------------------------------------------------------------------
(* Channels (Execute, lines 119-122): a buffer of capacity cap.            *)

MakeChan(capacity) == [buf |-> <<>>, cap |-> capacity, closed |-> FALSE]

\* a send that proceeds whatever the buffer holds
CanSendAlways(ch) == TRUE

\* a send proceeds when the buffer has room; on a closed channel it panics
CanSend(ch) == ch.closed \/ Len(ch.buf) < ch.cap
ChSend(ch, x) == IF ch.closed THEN ch ELSE [ch EXCEPT !.buf = Append(@, x)]
HaltOnSend(ch) == IF ch.closed THEN "panic: send on closed channel" ELSE halt

\* a receive of `range ch` takes the head of the buffer; the loop ends when
\* the channel is closed and drained
CanRecv(ch) == Len(ch.buf) > 0
ChRecv(ch) == [ch EXCEPT !.buf = Tail(@)]
Drained(ch) == ch.closed /\ Len(ch.buf) = 0

\* close of a closed channel panics
ChClose(ch) == [ch EXCEPT !.closed = TRUE]
HaltOnClose(ch) == IF ch.closed THEN "panic: close of closed channel" ELSE halt

Inc(f, x) == [f EXCEPT ![x] = @ + 1]

-----------------------------------------------------------------------------
(* Init: the state of Execute at line 154, flags parsed and checked by     *)
(* cobra (lines 314-320), channels made, no goroutine started.             *)

ParentKinds == {"folders", "organizations"}

GenOff == [pc |-> "off", i |-> 1, stack |-> <<>>, pending |-> Nil, cut |-> {}]

HistInit ==
    [sourced      |-> [p \in ProjectIds |-> 0],   \* sends on projectsIn
     iamCalls     |-> [p \in ProjectIds |-> 0],   \* TestIamPermissions calls
     forwarded    |-> [p \in ProjectIds |-> 0],   \* sends on projectsTested
     listed       |-> [n \in PolicyNames |-> 0],  \* policies the listings yielded
     enqueued     |-> [n \in PolicyNames |-> 0],  \* sends on policiesIn
     emitted      |-> [n \in PolicyNames |-> 0],  \* sends on policiesOut
     failed       |-> 0,    \* sends on policiesOut of a record with an error
     contributors |-> {},   \* parents on the call stack of listProjects at a send
     cut          |-> {},   \* listings of listProjects an error ended early
     \* per project and policy, the listings of listAlertPolicies that an
     \* error ended when that policy was next
     listCut      |-> [p \in ProjectIds |->
                        [k \in DOMAIN ListAlertPoliciesResult(Prefixed("projects", p))
                            |-> 0]]]

\* a second call of processAlertPolicy, by another worker of the third pool
PeerOff ==
    [pc |-> "off", alertPolicy |-> PolA2, script |-> <<>>, i |-> 1,
     policyOut |-> NewPolicyOut(PolA2)]

EvOff ==
    [pc |-> "off", alertPolicy |-> PolA2, script |-> <<>>, i |-> 1, row |-> 0,
     policyOut |-> NewPolicyOut(PolA2), trace |-> <<>>, calls |-> <<>>,
     peer |-> PeerOff]

\* a scan-root flag names each identifier once
Distinct(seq) == \A a, b \in DOMAIN seq : a # b => seq[a] # seq[b]
RootLists(S) == {seq \in SeqsUpTo(S, MaxRoots) : Distinct(seq)}

\* the flag sets cobra accepts: at most one kind of scan root is given;
\* --recursive and --excludeFolder go with neither --policy nor --project;
\* --testPermissions and --includeDisabled do not go with --policy
FlagsAccepted ==
    /\ Cardinality({k \in 1..4 :
            Len(<<projects, folders, organizations, policies>>[k]) > 0}) <= 1
    /\ (Len(projects) > 0 \/ Len(policies) > 0) =>
            (~recursive /\ excludedFolders = {})
    /\ Len(policies) > 0 => (~testPermissions /\ ~includeDisabled)

Pool == [recv |-> 0, busy |-> EmptyBag, done |-> 0]

Init ==
    /\ projects \in RootLists(ProjectIds)
    /\ folders \in RootLists(FolderIds)
    /\ organizations \in RootLists(OrganizationIds)
    /\ policies \in RootLists(NamedPolicies)
    /\ threads \in 1..MaxThreads
    /\ recursive \in BOOLEAN
    /\ testPermissions \in BOOLEAN
    /\ includeDisabled \in BOOLEAN
    /\ excludedFolders \in SUBSET FolderIds
    /\ FlagsAccepted
    /\ projectsIn = MakeChan(threads)
    /\ projectsTested = MakeChan(threads)
    /\ policiesIn = MakeChan(threads)
    /\ policiesOut = MakeChan(threads)
    /\ main = "start"
    /\ genProjects = GenOff
    /\ genParents = [kind \in ParentKinds |-> GenOff]
    /\ genPolicies = GenOff
    /\ pool1 = Pool
    /\ pool2 = Pool
    /\ pool3 = Pool
    /\ wg1 = 0
    /\ wg2 = 0
    /\ wg3 = 0
    /\ coordinator = "off"
    /\ halt = ""
    /\ hist = HistInit
    /\ ev = EvOff

-----------------------------------------------------------------------------
(* listProjects (monitoring.go:40-74), run by the generators of --folder   *)
(* and --organization (Execute, lines 171-176 and 179-184).  The call      *)
(* stack of listProjects is a sequence of frames: the parent, the loop the *)
(* call is in, and how many items that loop's iterator has yielded, plus   *)
(* one.  Any call of an iterator may fail.                                 *)

Roots(kind) == IF kind = "folders" THEN folders ELSE organizations

\* monitoring.go:41: slices.Contains(excludedFolders, parent[Index(parent, "/")+1:])
Excluded(parent) == \E e \in excludedFolders : Bare(e) = AfterFirstSlash(parent)

\* listProjects without the test of monitoring.go:41
ListProjectsCallAll(stack, parent) ==
    Append(stack, [parent |-> parent, phase |-> "projects", k |-> 1])

\* monitoring.go:40-46: a call of listProjects returns at once for an
\* excluded parent and starts listing the projects of any other
ListProjectsCall(stack, parent) ==
    IF Excluded(parent) THEN stack
    ELSE Append(stack, [parent |-> parent, phase |-> "projects", k |-> 1])

Top(stack) == stack[Len(stack)]
Pop(stack) == SubSeq(stack, 1, Len(stack) - 1)
SetTop(stack, frame) == [stack EXCEPT ![Len(stack)] = frame]

\* listProjects going on to the folders whatever recursive says
AfterProjectsAlways(stack) ==
    SetTop(stack, [Top(stack) EXCEPT !.phase = "folders", !.k = 1])

\* monitoring.go:58: after the loop over the projects, by break or Done
AfterProjects(stack) ==
    IF recursive THEN SetTop(stack, [Top(stack) EXCEPT !.phase = "folders", !.k = 1])
    ELSE Pop(stack)

\* monitoring.go:52-55 and 67-70: an error of Next() ends the loop of frame f
CutAt(stops, f) == {[stop EXCEPT !.cut = @ \cup {f}] : stop \in stops}

\* what the generator keeps of a stop of Walk
Resume(stop) == [stop EXCEPT !.cut = {}]

\* The generator from root i and call stack `stack` on, up to its next
\* channel operation: the send of a project (pending), or the close of
\* projectsIn (pending nil, no root left).  The set holds one element for
\* every way the iterator calls in between may end; cut holds the listings
\* that an error ended on the way before their last item (an error after
\* the last item ends the loop as Done does).
RECURSIVE Walk(_, _, _)
Walk(kind, i, stack) ==
    IF stack = <<>>
    THEN IF i > Len(Roots(kind))
         THEN {[pc |-> "run", i |-> i, stack |-> stack, pending |-> Nil,
                cut |-> {}]}
         \* lines 172-173 and 180-181: the next root is handed to listProjects
         ELSE Walk(kind, i + 1, ListProjectsCall(stack, Prefixed(kind, Roots(kind)[i])))
    ELSE LET f == Top(stack)
             advanced == SetTop(stack, [f EXCEPT !.k = @ + 1])
         IN  IF f.phase = "projects"
             \* monitoring.go:48-56: itProjects.Next() ends the loop (Done
             \* after the last project, an error at any call) or yields a project
             THEN IF f.k <= Len(ListProjectsResult(f.parent))
                  THEN CutAt(Walk(kind, i, AfterProjects(stack)), f)
                       \cup {[pc |-> "run", i |-> i, stack |-> advanced,
                               pending |-> Some(ListProjectsResult(f.parent)[f.k]),
                               cut |-> {}]}
                  ELSE Walk(kind, i, AfterProjects(stack))
             \* monitoring.go:63-71: itFolders.Next() ends the call or yields
             \* a folder, which is handed to listProjects
             ELSE IF f.k <= Len(ListFoldersResult(f.parent))
                  THEN CutAt(Walk(kind, i, Pop(stack)), f)
                       \cup Walk(kind, i, ListProjectsCall(advanced,
                                        ListFoldersResult(f.parent)[f.k]))
                  ELSE Walk(kind, i, Pop(stack))

-----------------------------------------------------------------------------
(* The main goroutine starts the others (Execute, lines 156-258).          *)

\* the worker count without the raises of lines 157-159 and 191-193
ConfiguredThreads(t, lenP, lenPol) == t

\* lines 156-159 and 190-193: the worker count after the two raises
EffectiveThreads(t, lenP, lenPol) ==
    LET t1 == IF lenP > 0 /\ lenP > t THEN lenP ELSE t
    IN  IF lenPol > 0 /\ lenPol > t1 THEN lenPol ELSE t1

\* whether the generator of a flag is started (lines 156, 170, 178, 190)
GenStart(len) == IF len > 0 THEN [GenOff EXCEPT !.pc = "start"] ELSE GenOff

\* lines 210-245: wg.Add(int(threads)) and that many workers, per pool
StartPool(n) == [recv |-> n, busy |-> EmptyBag, done |-> 0]

Launch ==
    /\ halt = "" /\ main = "start"
    /\ threads' = EffectiveThreads(threads, Len(projects), Len(policies))
    /\ genProjects' = GenStart(Len(projects))
    /\ genParents' = [kind \in ParentKinds |-> GenStart(Len(Roots(kind)))]
    /\ genPolicies' = GenStart(Len(policies))
    /\ wg1' = threads' /\ pool1' = StartPool(threads')
    /\ wg2' = threads' /\ pool2' = StartPool(threads')
    /\ wg3' = threads' /\ pool3' = StartPool(threads')
    /\ coordinator' = "wait1"
    /\ main' = "consume"
    /\ UNCHANGED <<cfgVars, chanVars, halt, hist, ev>>

-----------------------------------------------------------------------------
(* The generator of --project (Execute, lines 160-165).                    *)

\* line 162: projectsIn <- projects[i]
GenProjectsSend ==
    /\ halt = "" /\ genProjects.pc = "start"
    /\ genProjects.i <= Len(projects)
    /\ CanSend(projectsIn)
    /\ projectsIn' = ChSend(projectsIn, projects[genProjects.i])
    /\ halt' = HaltOnSend(projectsIn)
    /\ genProjects' = [genProjects EXCEPT !.i = @ + 1]
    /\ hist' = [hist EXCEPT !.sourced = Inc(@, projects[genProjects.i])]
    /\ UNCHANGED <<cfgVars, threads, projectsTested, policiesIn, policiesOut, main,
                   genParents, genPolicies, poolVars, wgVars, coordinator, ev>>

\* line 164: close(projectsIn)
GenProjectsClose ==
    /\ halt = "" /\ genProjects.pc = "start"
    /\ genProjects.i > Len(projects)
    /\ projectsIn' = ChClose(projectsIn)
    /\ halt' = HaltOnClose(projectsIn)
    /\ genProjects' = [genProjects EXCEPT !.pc = "done"]
    /\ UNCHANGED <<cfgVars, threads, projectsTested, policiesIn, policiesOut, main,
                   genParents, genPolicies, poolVars, wgVars, coordinator, hist, ev>>

-----------------------------------------------------------------------------
(* The generators of --folder and --organization (Execute, lines 171-176   *)
(* and 179-184).                                                           *)

\* the goroutine runs up to its first channel operation
GenBegin(kind) ==
    /\ halt = "" /\ genParents[kind].pc = "start"
    /\ \E g \in Walk(kind, 1, <<>>) :
            /\ genParents' = [genParents EXCEPT ![kind] = Resume(g)]
            /\ hist' = [hist EXCEPT !.cut = @ \cup g.cut]
    /\ UNCHANGED <<cfgVars, threads, chanVars, main, genProjects, genPolicies,
                   poolVars, wgVars, coordinator, halt, ev>>

\* monitoring.go:56: projects <- project.ProjectId, and on to the next
\* channel operation
GenSend(kind) ==
    LET g == genParents[kind] IN
    /\ halt = "" /\ g.pc = "run" /\ g.pending # Nil
    /\ CanSend(projectsIn)
    /\ projectsIn' = ChSend(projectsIn, Deref(g.pending))
    /\ halt' = HaltOnSend(projectsIn)
    /\ \E g2 \in Walk(kind, g.i, g.stack) :
            /\ genParents' = [genParents EXCEPT ![kind] = Resume(g2)]
            /\ hist' = [hist EXCEPT
                    !.sourced = Inc(@, Deref(g.pending)),
                    !.contributors = @ \cup {g.stack[j].parent : j \in 1..Len(g.stack)},
                    !.cut = @ \cup g2.cut]
    /\ UNCHANGED <<cfgVars, threads, projectsTested, policiesIn, policiesOut, main,
                   genProjects, genPolicies, poolVars, wgVars, coordinator, ev>>

\* lines 175 and 183: close(projectsIn) after the last root
GenClose(kind) ==
    LET g == genParents[kind] IN
    /\ halt = "" /\ g.pc = "run" /\ g.pending = Nil
    /\ projectsIn' = ChClose(projectsIn)
    /\ halt' = HaltOnClose(projectsIn)
    /\ genParents' = [genParents EXCEPT ![kind] = [g EXCEPT !.pc = "done"]]
    /\ UNCHANGED <<cfgVars, threads, projectsTested, policiesIn, policiesOut, main,
                   genProjects, genPolicies, poolVars, wgVars, coordinator, hist, ev>>

-----------------------------------------------------------------------------
(* The fetcher of --policy (Execute, lines 194-205).                       *)

\* lines 196-201: GetAlertPolicy; log.Fatal ends the process on an error
FetchGet ==
    /\ halt = "" /\ genPolicies.pc = "start" /\ genPolicies.pending = Nil
    /\ genPolicies.i <= Len(policies)
    /\ \E failed \in BOOLEAN :
        /\ halt' = IF failed THEN "log.Fatal" ELSE halt
        /\ genPolicies' =
            IF failed THEN genPolicies
            ELSE [genPolicies EXCEPT
                    !.pending = Some(GetAlertPolicyResult(policies[genPolicies.i]))]
    /\ UNCHANGED <<cfgVars, threads, chanVars, main, genProjects, genParents,
                   poolVars, wgVars, coordinator, hist, ev>>

\* line 202: policiesIn <- policy
FetchSend ==
    /\ halt = "" /\ genPolicies.pc = "start" /\ genPolicies.pending # Nil
    /\ CanSend(policiesIn)
    /\ policiesIn' = ChSend(policiesIn, Deref(genPolicies.pending))
    /\ halt' = HaltOnSend(policiesIn)
    /\ genPolicies' = [genPolicies EXCEPT !.pending = Nil, !.i = @ + 1]
    /\ hist' = [hist EXCEPT !.enqueued = Inc(@, Deref(genPolicies.pending).name)]
    /\ UNCHANGED <<cfgVars, threads, projectsIn, projectsTested, policiesOut, main,
                   genProjects, genParents, poolVars, wgVars, coordinator, ev>>

\* line 204: close(projectsIn)
FetchClose ==
    /\ halt = "" /\ genPolicies.pc = "start" /\ genPolicies.pending = Nil
    /\ genPolicies.i > Len(policies)
    /\ projectsIn' = ChClose(projectsIn)
    /\ halt' = HaltOnClose(projectsIn)
    /\ genPolicies' = [genPolicies EXCEPT !.pc = "done"]
    /\ UNCHANGED <<cfgVars, threads, projectsTested, policiesIn, policiesOut, main,
                   genProjects, genParents, poolVars, wgVars, coordinator, hist, ev>>

-----------------------------------------------------------------------------
(* The pools.  The workers of a pool run the same code and share nothing   *)
(* but the channels, so a pool is the number of its workers that wait at   *)
(* the receive of their range loop, the bag of what the others hold, and   *)
(* the number of those that have left the loop.                            *)

Hold(pool, x) == [pool EXCEPT !.recv = @ - 1, !.busy = @ (+) SetToBag({x})]
Release(pool, x) == [pool EXCEPT !.recv = @ + 1, !.busy = @ (-) SetToBag({x})]
Swap(pool, x, y) == [pool EXCEPT !.busy = (@ (-) SetToBag({x})) (+) SetToBag({y})]
Leave(pool) == [pool EXCEPT !.recv = @ - 1, !.done = @ + 1]
Workers(pool) == pool.recv + BagCardinality(pool.busy) + pool.done

-----------------------------------------------------------------------------
(* The first pool (Execute, lines 210-219) and verifyProjectPermissions    *)
(* (monitoring.go:82-101).                                                 *)

\* the loop of monitoring.go:93-98 stopping short of the last permission
FirstTwoGranted(granted, i) ==
    \A j \in i..2 : RequiredPermissions[j] \in granted

\* monitoring.go:93-98: the loop over the permissions, from the i-th on
RECURSIVE AllGrantedFrom(_, _)
AllGrantedFrom(granted, i) ==
    IF i > Len(RequiredPermissions) THEN TRUE
    ELSE IF RequiredPermissions[i] \notin granted THEN FALSE
    ELSE AllGrantedFrom(granted, i + 1)

\* verifyProjectPermissions letting a project through once only
AdmittedOnce(projectId) ==
    /\ hist.forwarded[projectId] = 0
    /\ IF testPermissions
       THEN LET resp == TestIamPermissionsResult(Prefixed("projects", projectId))
            IN  IF resp.err # "" THEN FALSE ELSE AllGrantedFrom(resp.permissions, 1)
       ELSE TRUE

\* monitoring.go:83-100: whether the call reaches the send of line 100
Admitted(projectId) ==
    IF testPermissions
    THEN LET resp == TestIamPermissionsResult(Prefixed("projects", projectId))
         IN  IF resp.err # "" THEN FALSE ELSE AllGrantedFrom(resp.permissions, 1)
    ELSE TRUE

\* monitoring.go:83-85: the number of TestIamPermissions calls of one call
IamCallsOf(projectId) == IF testPermissions THEN 1 ELSE 0

\* line 214 and monitoring.go:83-99
VerifyRecv ==
    /\ halt = "" /\ pool1.recv > 0
    /\ CanRecv(projectsIn)
    /\ LET project == Head(projectsIn.buf) IN
        /\ projectsIn' = ChRecv(projectsIn)
        /\ pool1' = IF Admitted(project) THEN Hold(pool1, project) ELSE pool1
        /\ hist' = [hist EXCEPT
                !.iamCalls = [@ EXCEPT ![project] = @ + IamCallsOf(project)]]
    /\ UNCHANGED <<cfgVars, threads, projectsTested, policiesIn, policiesOut, main,
                   genVars, pool2, pool3, wgVars, coordinator, halt, ev>>

\* monitoring.go:100: projectsTested <- projectId
VerifySend ==
    /\ halt = ""
    /\ CanSend(projectsTested)
    /\ \E project \in BagToSet(pool1.busy) :
        /\ projectsTested' = ChSend(projectsTested, project)
        /\ pool1' = Release(pool1, project)
        /\ hist' = [hist EXCEPT !.forwarded = Inc(@, project)]
    /\ halt' = HaltOnSend(projectsTested)
    /\ UNCHANGED <<cfgVars, threads, projectsIn, policiesIn, policiesOut, main,
                   genVars, pool2, pool3, wgVars, coordinator, ev>>

\* lines 214-217: the range loop ends, wg1.Done()
VerifyExit ==
    /\ halt = "" /\ pool1.recv > 0
    /\ Drained(projectsIn)
    /\ pool1' = Leave(pool1)
    /\ wg1' = wg1 - 1
    /\ UNCHANGED <<cfgVars, threads, chanVars, main, genVars, pool2, pool3, wg2, wg3,
                   coordinator, halt, hist, ev>>

-----------------------------------------------------------------------------
(* The second pool (Execute, lines 223-233) and listAlertPolicies          *)
(* (monitoring.go:103-121).                                                *)

\* the filter of monitoring.go:117 with an absent flag taken as enabled
AdmitsUnlessFalse(alertPolicy) ==
    alertPolicy.enabled # "false" \/ includeDisabled

\* monitoring.go:116-117: (enabled != nil && enabled.GetValue()) || includeDisabled
Admits(alertPolicy) ==
    (alertPolicy.enabled # "absent" /\ alertPolicy.enabled = "true") \/ includeDisabled

\* listAlertPolicies going on with the next policy after an error
RECURSIVE ListFromSkipping(_, _, _)
ListFromSkipping(project, k, listed) ==
    LET items == ListAlertPoliciesResult(Prefixed("projects", project)) IN
    IF k > Len(items) THEN {[found |-> FALSE, listed |-> listed, cut |-> 0]}
    ELSE {[stop EXCEPT !.cut = k] : stop \in ListFromSkipping(project, k + 1, listed)}
         \cup (IF Admits(items[k])
               THEN {[found |-> TRUE, listed |-> Append(listed, items[k].name),
                      cut |-> 0,
                      hold |-> [project |-> project, k |-> k + 1, policy |-> items[k]]]}
               ELSE ListFromSkipping(project, k + 1, Append(listed, items[k].name)))

\* listAlertPolicies on a project from the k-th call of the iterator on, up
\* to its next channel operation: the send of a policy (found), or the
\* receive of the range loop, the listing having ended (Done after the last
\* policy, an error at any call).  listed holds the policies yielded on the
\* way, cut the call an error ended the listing at when a policy was still
\* to come (0 when none).  One element for every way the iterator calls may
\* end.
RECURSIVE ListFrom(_, _, _)
ListFrom(project, k, listed) ==
    LET items == ListAlertPoliciesResult(Prefixed("projects", project)) IN
    {[found |-> FALSE, listed |-> listed, cut |-> IF k > Len(items) THEN 0 ELSE k]}
    \cup (IF k > Len(items) THEN {}
          ELSE IF Admits(items[k])
          THEN {[found |-> TRUE, listed |-> Append(listed, items[k].name), cut |-> 0,
                 hold |-> [project |-> project, k |-> k + 1, policy |-> items[k]]]}
          ELSE ListFrom(project, k + 1, Append(listed, items[k].name)))

\* monitoring.go:112-115: the failure of a listing, counted
CountCut(f, project, stop) ==
    IF stop.cut = 0 THEN f ELSE [f EXCEPT ![project][stop.cut] = @ + 1]

RECURSIVE IncAll(_, _)
IncAll(f, seq) == IF seq = <<>> THEN f ELSE IncAll(Inc(f, Head(seq)), Tail(seq))

\* line 227 and monitoring.go:104-117
ListRecv ==
    /\ halt = "" /\ pool2.recv > 0
    /\ CanRecv(projectsTested)
    /\ projectsTested' = ChRecv(projectsTested)
    /\ \E stop \in ListFrom(Head(projectsTested.buf), 1, <<>>) :
        /\ pool2' = IF stop.found THEN Hold(pool2, stop.hold) ELSE pool2
        /\ hist' = [hist EXCEPT
                !.listed = IncAll(@, stop.listed),
                !.listCut = CountCut(@, Head(projectsTested.buf), stop)]
    /\ UNCHANGED <<cfgVars, threads, projectsIn, policiesIn, policiesOut, main,
                   genVars, pool1, pool3, wgVars, coordinator, halt, ev>>

\* monitoring.go:118: policiesIn <- alertPolicy, and on with the listing
ListSend ==
    /\ halt = ""
    /\ CanSend(policiesIn)
    /\ \E held \in BagToSet(pool2.busy) :
        /\ policiesIn' = ChSend(policiesIn, held.policy)
        /\ \E stop \in ListFrom(held.project, held.k, <<>>) :
            /\ pool2' = IF stop.found THEN Swap(pool2, held, stop.hold)
                        ELSE Release(pool2, held)
            /\ hist' = [hist EXCEPT !.enqueued = Inc(@, held.policy.name),
                                    !.listed = IncAll(@, stop.listed),
                                    !.listCut = CountCut(@, held.project, stop)]
    /\ halt' = HaltOnSend(policiesIn)
    /\ UNCHANGED <<cfgVars, threads, projectsIn, projectsTested, policiesOut, main,
                   genVars, pool1, pool3, wgVars, coordinator, ev>>

\* lines 227-231: the range loop ends, wg2.Done()
ListExit ==
    /\ halt = "" /\ pool2.recv > 0
    /\ Drained(projectsTested)
    /\ pool2' = Leave(pool2)
    /\ wg2' = wg2 - 1
    /\ UNCHANGED <<cfgVars, threads, chanVars, main, genVars, pool1, pool3, wg1, wg3,
                   coordinator, halt, hist, ev>>

-----------------------------------------------------------------------------
(* The third pool (Execute, lines 236-245): processAlertPolicy on each     *)
(* policy of policiesIn.                                                   *)

\* the answers the provider gives a worker of the pool: a query returns
\* MaxRows time series, or fails before its first one
WorkerOutcomes ==
    {[rows |-> MaxRows, err |-> ""], [rows |-> 0, err |-> "deadline exceeded"]}

\* the answers of the provider to the queries of the conditions of a policy
Scripts(alertPolicy, outcomes) == [1..Len(alertPolicy.conditions) -> outcomes]

\* line 240 and monitoring.go:132-237
EvalRecv ==
    /\ halt = "" /\ pool3.recv > 0
    /\ CanRecv(policiesIn)
    /\ policiesIn' = ChRecv(policiesIn)
    /\ \E script \in Scripts(Head(policiesIn.buf), WorkerOutcomes) :
            pool3' = Hold(pool3, processAlertPolicy(Head(policiesIn.buf), script))
    /\ UNCHANGED <<cfgVars, threads, projectsIn, projectsTested, policiesOut, main,
                   genVars, pool1, pool2, wgVars, coordinator, halt, hist, ev>>

\* monitoring.go:238: policiesOut <- policyOut
EvalSend ==
    /\ halt = ""
    /\ CanSend(policiesOut)
    /\ \E policyOut \in BagToSet(pool3.busy) :
        /\ policiesOut' = ChSend(policiesOut, policyOut)
        /\ pool3' = Release(pool3, policyOut)
        /\ hist' = [hist EXCEPT
                !.emitted = Inc(@, policyOut.Name),
                !.failed = @ + (IF policyOut.Error # "" THEN 1 ELSE 0)]
    /\ halt' = HaltOnSend(policiesOut)
    /\ UNCHANGED <<cfgVars, threads, projectsIn, projectsTested, policiesIn, main,
                   genVars, pool1, pool2, wgVars, coordinator, ev>>

\* lines 240-243: the range loop ends, wg3.Done()
EvalExit ==
    /\ halt = "" /\ pool3.recv > 0
    /\ Drained(policiesIn)
    /\ pool3' = Leave(pool3)
    /\ wg3' = wg3 - 1
    /\ UNCHANGED <<cfgVars, threads, chanVars, main, genVars, pool1, pool2, wg1, wg2,
                   coordinator, halt, hist, ev>>

-----------------------------------------------------------------------------
(* The coordinator (Execute, lines 248-258).                               *)

\* lines 250-251: wg1.Wait(); close(projectsTested)
CloseProjectsTested ==
    /\ halt = "" /\ coordinator = "wait1"
    /\ wg1 = 0
    /\ projectsTested' = ChClose(projectsTested)
    /\ halt' = HaltOnClose(projectsTested)
    /\ coordinator' = "wait2"
    /\ UNCHANGED <<cfgVars, threads, projectsIn, policiesIn, policiesOut, main,
                   genVars, poolVars, wgVars, hist, ev>>

\* ClosePoliciesIn without wg2.Wait(): policiesIn closed while workers of
\* the second pool may still send on it
ClosePoliciesInEarly ==
    /\ halt = "" /\ coordinator = "wait2"
    /\ policiesIn' = ChClose(policiesIn)
    /\ halt' = HaltOnClose(policiesIn)
    /\ coordinator' = "wait3"
    /\ UNCHANGED <<cfgVars, threads, projectsIn, projectsTested, policiesOut, main,
                   genVars, poolVars, wgVars, hist, ev>>

\* lines 253-254: wg2.Wait(); close(policiesIn)
ClosePoliciesIn ==
    /\ halt = "" /\ coordinator = "wait2"
    /\ wg2 = 0
    /\ policiesIn' = ChClose(policiesIn)
    /\ halt' = HaltOnClose(policiesIn)
    /\ coordinator' = "wait3"
    /\ UNCHANGED <<cfgVars, threads, projectsIn, projectsTested, policiesOut, main,
                   genVars, poolVars, wgVars, hist, ev>>

\* ClosePoliciesOut without wg3.Wait()
ClosePoliciesOutEarly ==
    /\ halt = "" /\ coordinator = "wait3"
    /\ policiesOut' = ChClose(policiesOut)
    /\ halt' = HaltOnClose(policiesOut)
    /\ coordinator' = "done"
    /\ UNCHANGED <<cfgVars, threads, projectsIn, projectsTested, policiesIn, main,
                   genVars, poolVars, wgVars, hist, ev>>

\* lines 256-257: wg3.Wait(); close(policiesOut)
ClosePoliciesOut ==
    /\ halt = "" /\ coordinator = "wait3"
    /\ wg3 = 0
    /\ policiesOut' = ChClose(policiesOut)
    /\ halt' = HaltOnClose(policiesOut)
    /\ coordinator' = "done"
    /\ UNCHANGED <<cfgVars, threads, projectsIn, projectsTested, policiesIn, main,
                   genVars, poolVars, wgVars, hist, ev>>

-----------------------------------------------------------------------------
(* The consumer: the main goroutine ranges over policiesOut (Execute,      *)
(* lines 273, 286 and 294).                                                *)

Consume ==
    /\ halt = "" /\ main = "consume"
    /\ CanRecv(policiesOut)
    /\ policiesOut' = ChRecv(policiesOut)
    /\ UNCHANGED <<cfgVars, threads, projectsIn, projectsTested, policiesIn, main,
                   genVars, poolVars, wgVars, coordinator, halt, hist, ev>>

\* the range loop ends and Execute returns
ConsumeEnd ==
    /\ halt = "" /\ main = "consume"
    /\ Drained(policiesOut)
    /\ main' = "done"
    /\ UNCHANGED <<cfgVars, threads, chanVars, genVars, poolVars, wgVars,
                   coordinator, halt, hist, ev>>

-----------------------------------------------------------------------------

Next ==
    \/ Launch
    \/ GenProjectsSend
    \/ GenProjectsClose
    \/ \E kind \in ParentKinds : GenBegin(kind)
    \/ \E kind \in ParentKinds : GenSend(kind)
    \/ \E kind \in ParentKinds : GenClose(kind)
    \/ FetchGet
    \/ FetchSend
    \/ FetchClose
    \/ VerifyRecv
    \/ VerifySend
    \/ VerifyExit
    \/ ListRecv
    \/ ListSend
    \/ ListExit
    \/ EvalRecv
    \/ EvalSend
    \/ EvalExit
    \/ CloseProjectsTested
    \/ ClosePoliciesIn
    \/ ClosePoliciesOut
    \/ Consume
    \/ ConsumeEnd

Spec == Init /\ [][Next]_vars

-----------------------------------------------------------------------------
(* SpecEval: one call of processAlertPolicy (monitoring.go:123-239), one   *)
(* step per call of the provider.  Init fixes the policy and script, the   *)
(* answer of the provider to the query of each condition; ev.trace keeps   *)
(* policyOut as it is before the loop over the conditions and at the end   *)
(* of each of its iterations, ev.calls the requests made.                  *)

\* the conditions of the policies of up to MaxConds conditions
CoreConditions ==
    {Condition("mql", 0, <<>>), Condition("pql", 60, <<>>),
     Condition("threshold", 0, <<>>)}

\* the conditions evaluated alone
OtherConditions ==
    {Condition("none", 0, <<>>),
     Condition("pql", 30, <<>>), Condition("pql", 0, <<>>),
     Condition("pql", -60, <<>>),
     Condition("threshold", 0, <<"REDUCE_SUM">>),
     Condition("threshold", 0, <<"REDUCE_COUNT_FALSE">>),
     Condition("threshold", 0, <<"REDUCE_SUM", "REDUCE_COUNT_FALSE">>),
     Condition("threshold", 0, <<"REDUCE_SUM", "REDUCE_NONE">>),
     Condition("absent", 0, <<>>),
     Condition("absent", 0, <<"REDUCE_SUM">>),
     Condition("absent", 0, <<"REDUCE_COUNT_FALSE", "REDUCE_SUM">>)}

\* further lists of conditions
OtherConditionLists ==
    {<<Condition("none", 0, <<>>), Condition("mql", 0, <<>>)>>,
     <<Condition("absent", 0, <<>>), Condition("none", 0, <<>>)>>,
     <<Condition("pql", 0, <<>>), Condition("mql", 0, <<>>)>>}

EvalPolicies ==
    {AlertPolicy("pa", "e1", "true", cs) :
        cs \in SeqsUpTo(CoreConditions, MaxConds)
               \cup {<<c>> : c \in OtherConditions} \cup OtherConditionLists}

InitEval ==
    /\ projects = <<>> /\ folders = <<>> /\ organizations = <<>> /\ policies = <<>>
    /\ threads = 1
    /\ recursive = FALSE /\ testPermissions = FALSE /\ includeDisabled = FALSE
    /\ excludedFolders = {}
    /\ projectsIn = MakeChan(threads)
    /\ projectsTested = MakeChan(threads)
    /\ policiesIn = MakeChan(threads)
    /\ policiesOut = MakeChan(threads)
    /\ main = "start"
    /\ genProjects = GenOff
    /\ genParents = [kind \in ParentKinds |-> GenOff]
    /\ genPolicies = GenOff
    /\ pool1 = Pool /\ pool2 = Pool /\ pool3 = Pool
    /\ wg1 = 0 /\ wg2 = 0 /\ wg3 = 0
    /\ coordinator = "off"
    /\ halt = ""
    /\ hist = HistInit
    /\ \E alertPolicy \in EvalPolicies :
       \E script \in Scripts(alertPolicy, QueryOutcomes) :
            ev = [EvOff EXCEPT !.pc = "init", !.alertPolicy = alertPolicy,
                               !.script = script]

EvCondition == ev.alertPolicy.conditions[ev.i]
EvAnswer == ev.script[ev.i]

\* the loop over the conditions left for the send after its first iteration
EndIterationAndSend(e) ==
    [e EXCEPT !.trace = Append(@, e.policyOut), !.i = @ + 1, !.row = 0,
              !.pc = "send"]

\* the end of an iteration of the loop of monitoring.go:142-237: on to the
\* next condition, or to the send of line 238 after the last one
EndIteration(e) ==
    [e EXCEPT !.trace = Append(@, e.policyOut), !.i = @ + 1, !.row = 0,
              !.pc = IF e.i + 1 > Len(e.alertPolicy.conditions) THEN "send" ELSE "mql"]

evUnchanged ==
    UNCHANGED <<cfgVars, threads, projectsIn, projectsTested, policiesIn, main,
                genVars, poolVars, wgVars, coordinator, halt, hist>>

\* monitoring.go:132-141
EvStart ==
    /\ ev.pc = "init"
    /\ ev' = [ev EXCEPT !.policyOut = NewPolicyOut(ev.alertPolicy),
                        !.trace = <<NewPolicyOut(ev.alertPolicy)>>,
                        !.pc = IF Len(ev.alertPolicy.conditions) = 0
                               THEN "send" ELSE "mql"]
    /\ evUnchanged /\ UNCHANGED policiesOut

\* monitoring.go:143-151: the MQL query, if the condition is an MQL one
EvMqlQuery ==
    /\ ev.pc = "mql"
    /\ ev' = IF GetConditionMonitoringQueryLanguage(EvCondition) # Nil
             THEN [ev EXCEPT !.pc = "mqlNext",
                             !.calls = Append(@, [api |-> "QueryTimeSeries"])]
             ELSE [ev EXCEPT !.pc = "pql"]
    /\ evUnchanged /\ UNCHANGED policiesOut

\* monitoring.go:153-163: tsIt.Next() yields a row, Done or an error
EvMqlNext ==
    /\ ev.pc = "mqlNext"
    /\ ev' = IF ev.row < EvAnswer.rows
             THEN [ev EXCEPT !.policyOut = AddSeriesMql(@), !.row = @ + 1]
             ELSE IF EvAnswer.err # ""
             THEN [ev EXCEPT !.policyOut = SetError(@, EvAnswer.err), !.pc = "pql"]
             ELSE [ev EXCEPT !.pc = "pql"]
    /\ evUnchanged /\ UNCHANGED policiesOut

\* monitoring.go:166-194: the PromQL range query, if the condition is a
\* PromQL one; an error of the call or of the decoding ends the iteration
EvPqlQuery ==
    /\ ev.pc = "pql"
    /\ LET pql == GetConditionPrometheusQueryLanguage(EvCondition)
           called == [ev EXCEPT !.calls = Append(@,
                        [api |-> "QueryRange", Step |-> Deref(pql).seconds])]
       IN  ev' = IF pql = Nil THEN [ev EXCEPT !.pc = "ts"]
                 ELSE IF EvAnswer.err # ""
                 THEN EndIteration([called EXCEPT
                            !.policyOut = SetError(@, EvAnswer.err)])
                 ELSE [called EXCEPT
                        !.policyOut = AddPqlSeries(@, Deref(pql).seconds, EvAnswer.rows),
                        !.pc = "ts"]
    /\ evUnchanged /\ UNCHANGED policiesOut

\* the time-series list request made for a condition of any variant
EvTsRequestAlways ==
    /\ ev.pc = "ts"
    /\ ev' = [ev EXCEPT !.pc = "tsNext", !.row = 0,
                        !.calls = Append(@, ListTimeSeriesRequest(EvCondition))]
    /\ evUnchanged /\ UNCHANGED policiesOut

\* monitoring.go:195-222: the time-series list request, if the condition is
\* a threshold or an absence one
EvTsRequest ==
    /\ ev.pc = "ts"
    /\ ev' = IF \/ GetConditionThreshold(EvCondition) # Nil
                \/ GetConditionAbsent(EvCondition) # Nil
             THEN [ev EXCEPT !.pc = "tsNext", !.row = 0,
                             !.calls = Append(@, ListTimeSeriesRequest(EvCondition))]
             ELSE EndIteration(ev)
    /\ evUnchanged /\ UNCHANGED policiesOut

\* monitoring.go:224-234: tsIt.Next() yields a row, Done or an error
EvTsNext ==
    /\ ev.pc = "tsNext"
    /\ ev' = IF ev.row < EvAnswer.rows
             THEN [ev EXCEPT !.policyOut = AddSeriesTs(@), !.row = @ + 1]
             ELSE IF EvAnswer.err # ""
             THEN EndIteration([ev EXCEPT !.policyOut = SetError(@, EvAnswer.err)])
             ELSE EndIteration(ev)
    /\ evUnchanged /\ UNCHANGED policiesOut

\* monitoring.go:238: policiesOut <- policyOut
EvSend ==
    /\ ev.pc = "send"
    /\ CanSend(policiesOut)
    /\ policiesOut' = ChSend(policiesOut, ev.policyOut)
    /\ ev' = [ev EXCEPT !.pc = "done"]
    /\ evUnchanged

NextEval ==
    \/ EvStart
    \/ EvMqlQuery
    \/ EvMqlNext
    \/ EvPqlQuery
    \/ EvTsRequest
    \/ EvTsNext
    \/ EvSend

SpecEval == InitEval /\ [][NextEval]_vars

\* the steps of SpecEval compute what a worker of the third pool computes
\* in one step
EvalAgrees ==
    ev.pc \in {"send", "done"} =>
        ev.policyOut = processAlertPolicy(ev.alertPolicy, ev.script)

-----------------------------------------------------------------------------
(* SpecPair: two workers of the third pool (Execute, lines 238-245), each  *)
(* in a call of processAlertPolicy, on the same policy or on two policies. *)
(* The first takes the steps of SpecEval; the second, ev.peer, takes one   *)
(* step per condition.  Each call has its own policyOut (monitoring.go:135) *)
(* and both send on policiesOut.                                           *)

PairPolicies ==
    {AlertPolicy("pa", "e1", "true", cs) : cs \in SeqsUpTo(CoreConditions, MaxConds)}

\* the policy of the second worker: the same one, or one of another project
PeerPolicies(alertPolicy) ==
    {alertPolicy, AlertPolicy("pc", "e2", "true", <<Condition("pql", 60, <<>>)>>)}

InitPair ==
    /\ projects = <<>> /\ folders = <<>> /\ organizations = <<>> /\ policies = <<>>
    /\ threads = 2
    /\ recursive = FALSE /\ testPermissions = FALSE /\ includeDisabled = FALSE
    /\ excludedFolders = {}
    /\ projectsIn = MakeChan(threads)
    /\ projectsTested = MakeChan(threads)
    /\ policiesIn = MakeChan(threads)
    /\ policiesOut = MakeChan(threads)
    /\ main = "start"
    /\ genProjects = GenOff
    /\ genParents = [kind \in ParentKinds |-> GenOff]
    /\ genPolicies = GenOff
    /\ pool1 = Pool /\ pool2 = Pool /\ pool3 = Pool
    /\ wg1 = 0 /\ wg2 = 0 /\ wg3 = 0
    /\ coordinator = "off"
    /\ halt = ""
    /\ hist = HistInit
    /\ \E alertPolicy \in PairPolicies :
       \E peerPolicy \in PeerPolicies(alertPolicy) :
       \E script \in Scripts(alertPolicy, WorkerOutcomes) :
       \E peerScript \in Scripts(peerPolicy, WorkerOutcomes) :
            ev = [EvOff EXCEPT
                    !.pc = "init", !.alertPolicy = alertPolicy, !.script = script,
                    !.peer = [PeerOff EXCEPT !.pc = "init",
                                             !.alertPolicy = peerPolicy,
                                             !.script = peerScript]]

\* monitoring.go:132-141
PeerStart ==
    /\ ev.peer.pc = "init"
    /\ ev' = [ev EXCEPT !.peer.policyOut = NewPolicyOut(ev.peer.alertPolicy),
                        !.peer.pc = "loop"]
    /\ evUnchanged /\ UNCHANGED policiesOut

\* monitoring.go:142-237: one iteration of the loop over the conditions
PeerCondition ==
    /\ ev.peer.pc = "loop"
    /\ ev.peer.i <= Len(ev.peer.alertPolicy.conditions)
    /\ ev' = [ev EXCEPT
            !.peer.policyOut =
                EvalCondition(@, ev.peer.alertPolicy.conditions[ev.peer.i],
                              ev.peer.script[ev.peer.i]),
            !.peer.i = @ + 1]
    /\ evUnchanged /\ UNCHANGED policiesOut

\* monitoring.go:238: policiesOut <- policyOut
PeerSend ==
    /\ ev.peer.pc = "loop"
    /\ ev.peer.i > Len(ev.peer.alertPolicy.conditions)
    /\ CanSend(policiesOut)
    /\ policiesOut' = ChSend(policiesOut, ev.peer.policyOut)
    /\ ev' = [ev EXCEPT !.peer.pc = "done"]
    /\ evUnchanged

NextPair ==
    \/ EvStart
    \/ EvMqlQuery
    \/ EvMqlNext
    \/ EvPqlQuery
    \/ EvTsRequest
    \/ EvTsNext
    \/ EvSend
    \/ PeerStart
    \/ PeerCondition
    \/ PeerSend

SpecPair == InitPair /\ [][NextPair]_vars

-----------------------------------------------------------------------------
(* Properties of the pipeline (Spec).                                      *)

Total(f) == SumOver(f, DOMAIN f)

\* how many items of a buffer, or of what the workers of a pool hold,
\* satisfy a test
CountIn(buf, Test(_)) == Cardinality({k \in DOMAIN buf : Test(buf[k])})
HeldIn(pool, Test(_)) ==
    LET S == {x \in BagToSet(pool.busy) : Test(x)}
    IN  SumOver([x \in S |-> CopiesIn(x, pool.busy)], S)

RootsGiven ==
    Len(projects) + Len(folders) + Len(organizations) + Len(policies) > 0

AllLeft(pool) == pool.done = Workers(pool)

\* policiesOut is closed and every worker of the three pools has left its loop
OrderlyShutdown ==
    /\ policiesOut.closed
    /\ AllLeft(pool1) /\ AllLeft(pool2) /\ AllLeft(pool3)

\* no goroutine can take a step: the run is over, or it hangs
Quiescent == ~ENABLED Next

\* C1: for any finite, possibly empty set of scan targets, with provider
\* calls that return and a consumer that drains policiesOut, the run ends
\* with policiesOut closed and every worker of the three pools gone: a
\* process that is alive and can take no step has shut down in order.
C1_OutputTerminates == (halt = "" /\ Quiescent) => OrderlyShutdown

\* with a scan root named, a live process that can take no step has shut
\* down in order
ShutdownWhenRootsGiven ==
    (halt = "" /\ Quiescent /\ RootsGiven) => OrderlyShutdown

\* C2: in no interleaving does a goroutine send on a closed channel or
\* close a channel a second time (either panics).
C2_NoSendOnClosedNoDoubleClose ==
    halt \notin {"panic: send on closed channel", "panic: close of closed channel"}

\* explicit-policy mode has run to its end: the fetcher sent its policies
\* into policiesIn and closed projectsIn, the coordinator closed the rest
C2_Witness ==
    /\ Len(policies) = MaxRoots
    /\ genPolicies.pc = "done"
    /\ projectsIn.closed /\ projectsTested.closed /\ policiesIn.closed
    /\ policiesOut.closed
    /\ Total(hist.emitted) = Len(policies)

\* C3: every policy sent on policiesIn yields exactly one record on
\* policiesOut: until it is emitted a policy sent is in the buffer of
\* policiesIn or held by a worker of the third pool, and when the run has
\* ended as many records were emitted for a policy as the policy was sent.
C3_ExactlyOneResult ==
    \A n \in PolicyNames :
        LET IsPolicy(alertPolicy) == alertPolicy.name = n
            IsResult(policyOut) == policyOut.Name = n
        IN  /\ hist.enqueued[n] =
                    CountIn(policiesIn.buf, IsPolicy) + HeldIn(pool3, IsResult)
                    + hist.emitted[n]
            /\ Quiescent => hist.emitted[n] = hist.enqueued[n]

\* in a run not ended by log.Fatal no policy sent on policiesIn is lost
NoPolicyLostUnlessFatal ==
    (halt = "" /\ Quiescent) =>
        \A n \in PolicyNames : hist.emitted[n] = hist.enqueued[n]

\* C4: a provider failure on one item never stops the run nor keeps any
\* other item from being processed: the process is never ended by a
\* failure, and a run that can take no further step has shut down in order.
C4_FailureNeverStopsRun ==
    /\ halt # "log.Fatal"
    /\ (RootsGiven /\ Quiescent) => OrderlyShutdown

\* the folders beneath a parent, and the projects in a folder or beneath it
RECURSIVE FoldersBeneath(_)
FoldersBeneath(parent) ==
    LET children == {ListFoldersResult(parent)[k] :
                        k \in DOMAIN ListFoldersResult(parent)}
    IN  children \cup UNION {FoldersBeneath(child) : child \in children}

ProjectsBeneath(folder) ==
    UNION {{ListProjectsResult(f)[k] : k \in DOMAIN ListProjectsResult(f)} :
                f \in {folder} \cup FoldersBeneath(folder)}

ExcludedFolderNames == {Prefixed("folders", e) : e \in excludedFolders}

\* C5: a folder whose bare id is in the exclusion set contributes no
\* project to projectsIn: no project is ever sent by a call of listProjects
\* for such a folder or by a call beneath one, and unless a folder beneath it
\* is itself named as a scan root, no project in it or in any folder beneath
\* it, excluded or not, is sent at all.
C5_ExcludedFolderContributesNothing ==
    /\ \A parent \in hist.contributors : ~Excluded(parent)
    /\ \A kind \in ParentKinds :
            \A j \in DOMAIN genParents[kind].stack :
                ~Excluded(genParents[kind].stack[j].parent)
    /\ \A folder \in ExcludedFolderNames :
            (\A k \in DOMAIN folders :
                    Prefixed("folders", folders[k]) \notin FoldersBeneath(folder))
                => \A p \in ProjectsBeneath(folder) : hist.sourced[p] = 0

\* the recursive scan of the organization with folders/f1 excluded is over:
\* the project of the organization was sent, that of f1 and that of f2,
\* which lies in f1 and is not excluded, were not
C5_Witness ==
    /\ organizations = <<"o1">> /\ recursive /\ excludedFolders = {"f1"}
    /\ genParents["organizations"].pc = "done"
    /\ hist.sourced["pa"] = 1
    /\ hist.sourced["pb"] = 0 /\ hist.sourced["pc"] = 0
    /\ main = "done"

\* the number of explicitly named projects or policies, and the configured
\* parallelism: the capacity the channels were made with
NamedCount == IF Len(projects) > 0 THEN Len(projects) ELSE Len(policies)
ConfiguredParallelism == projectsIn.cap

\* C6: each of the three pools is started with max(T, C) workers, T the
\* configured parallelism and C the number of explicitly named projects or
\* policies: C workers when C > T, T workers otherwise.
C6_WorkersAreMaxOfThreadsAndCount ==
    main # "start" =>
        \A k \in 1..3 :
            Workers(<<pool1, pool2, pool3>>[k]) =
                IF NamedCount > ConfiguredParallelism
                THEN NamedCount ELSE ConfiguredParallelism

\* more policies named than the configured parallelism, pools started
C6_Witness ==
    /\ main # "start"
    /\ Len(policies) > ConfiguredParallelism
    /\ Workers(pool1) = Len(policies)
    /\ Workers(pool3) = Len(policies)

\* the permission gate lets a project through
GateOpen(p) ==
    \/ ~testPermissions
    \/ LET resp == TestIamPermissionsResult(Prefixed("projects", p))
       IN  /\ resp.err = ""
           /\ {"monitoring.timeSeries.list", "monitoring.alertPolicies.get",
               "monitoring.alertPolicies.list"} \subseteq resp.permissions

\* how often a project was taken from projectsIn
Taken(p) ==
    LET IsProject(x) == x = p IN hist.sourced[p] - CountIn(projectsIn.buf, IsProject)

\* C8: a project taken from projectsIn is forwarded to projectsTested
\* exactly once (it is held for the send, or was sent) if and only if the
\* gate is disabled or the permission query succeeded and granted all three
\* permissions; TestIamPermissions is called once per project taken when the
\* gate is enabled and never when it is disabled; a rejected project is
\* never forwarded, none of its policies is listed or evaluated and no
\* record of it is on policiesOut.
C8_ForwardedIffGateOpen ==
    \A p \in ProjectIds :
        LET IsProject(x) == x = p
            OfProject(policyOut) == policyOut.ProjectId = p
        IN  /\ hist.forwarded[p] + HeldIn(pool1, IsProject) =
                    IF GateOpen(p) THEN Taken(p) ELSE 0
            /\ hist.iamCalls[p] = IF testPermissions THEN Taken(p) ELSE 0
            /\ ~GateOpen(p) =>
                /\ CountIn(projectsTested.buf, IsProject) = 0
                /\ CountIn(policiesOut.buf, OfProject) = 0
                /\ \A alertPolicy \in WorldPolicies :
                        getProjectId(alertPolicy) = p =>
                            /\ hist.listed[alertPolicy.name] = 0
                            /\ hist.emitted[alertPolicy.name] = 0

\* a gated run over the three projects is over: pa, with all permissions,
\* was forwarded; pb, without the third, and pc, whose query fails, were not
C8_Witness ==
    /\ testPermissions
    /\ \A p \in ProjectIds : hist.sourced[p] = 1 /\ hist.iamCalls[p] = 1
    /\ hist.forwarded["pa"] = 1
    /\ hist.forwarded["pb"] = 0 /\ hist.forwarded["pc"] = 0
    /\ main = "done"

\* C9: a policy the listing of a project yields is sent on policiesIn (it
\* is held for the send, or was sent) if and only if its enabled flag is
\* present and true or includeDisabled is set; a policy without the flag is
\* sent only when includeDisabled is set.
C9_EnqueuedIffEnabledOrIncluded ==
    Len(policies) = 0 =>
        \A alertPolicy \in WorldPolicies :
            LET IsPolicy(held) == held.policy.name = alertPolicy.name
            IN  hist.enqueued[alertPolicy.name] + HeldIn(pool2, IsPolicy) =
                    IF alertPolicy.enabled = "true" \/ includeDisabled
                    THEN hist.listed[alertPolicy.name] ELSE 0

\* the policies of pa were listed without includeDisabled: the enabled one
\* was sent, the one without the flag was not
C9_Witness ==
    /\ ~includeDisabled
    /\ hist.listed[PolA1.name] >= 1 /\ hist.listed[PolA2.name] >= 1
    /\ hist.enqueued[PolA1.name] = hist.listed[PolA1.name]
    /\ hist.enqueued[PolA2.name] = 0
    /\ main = "done"

\* a policy without the flag is sent when includeDisabled is set
C9_AbsentFlagIncluded ==
    /\ includeDisabled
    /\ hist.enqueued[PolA2.name] >= 1

-----------------------------------------------------------------------------
(* Properties of processAlertPolicy (SpecEval).                            *)

EvConditions == ev.alertPolicy.conditions

\* the condition makes a query
Queried(c) == c.variant \in {"mql", "pql", "threshold", "absent"}
QueryFailed(i) == Queried(EvConditions[i]) /\ ev.script[i].err # ""
QuerySucceeded(i) == Queried(EvConditions[i]) /\ ev.script[i].err = ""

\* what the query of condition i adds to the price and to the count: the
\* rows it returned, at the price of its kind
PriceAdded(i) ==
    LET c == EvConditions[i]
        resp == ev.script[i]
    IN  IF c.variant \in {"mql", "threshold", "absent"}
        THEN Float(resp.rows * SeriesPrice)
        ELSE IF c.variant = "pql" /\ resp.err = ""
        THEN PqlIncrement(c.seconds, resp.rows)
        ELSE Float(0)

SeriesAdded(i) ==
    LET c == EvConditions[i]
        resp == ev.script[i]
    IN  IF c.variant \in {"mql", "threshold", "absent"} THEN resp.rows
        ELSE IF c.variant = "pql" /\ resp.err = "" THEN resp.rows
        ELSE 0

RECURSIVE PriceUpTo(_)
PriceUpTo(i) ==
    IF i = 0 THEN Float(BasePrice * Len(EvConditions))
    ELSE FAdd(PriceUpTo(i - 1), PriceAdded(i))

RECURSIVE SeriesUpTo(_)
SeriesUpTo(i) == IF i = 0 THEN 0 ELSE SeriesUpTo(i - 1) + SeriesAdded(i)

LastFailed == CHOOSE i \in DOMAIN EvConditions :
                /\ QueryFailed(i)
                /\ \A j \in DOMAIN EvConditions : QueryFailed(j) => j <= i

\* C7: a failed query on one condition does not abort the policy: every
\* condition is evaluated, and the record sent has the base of 1.5 per
\* condition plus what every condition added, those that succeeded before
\* or after the failing one in full, the count of all their series, and the
\* message of the failing condition as error.
C7_FailedConditionKeepsOthers ==
    (ev.pc = "done" /\ \E i \in DOMAIN EvConditions : QueryFailed(i)) =>
        LET policyOut == policiesOut.buf[1] IN
        /\ Len(ev.trace) = Len(EvConditions) + 1
        /\ policyOut.Conditions = Len(EvConditions)
        /\ policyOut.Price = PriceUpTo(Len(EvConditions))
        /\ policyOut.TimeSeries = SeriesUpTo(Len(EvConditions))
        /\ policyOut.Error = ev.script[LastFailed].err

\* a policy of two conditions, the first succeeded with rows, the second
\* failed: the record sent has the rows of the first and the error
C7_Witness ==
    /\ ev.pc = "done"
    /\ Len(EvConditions) = 2
    /\ QuerySucceeded(1) /\ ev.script[1].rows = MaxRows
    /\ QueryFailed(2) /\ ev.script[2].rows = 0
    /\ policiesOut.buf[1].TimeSeries = MaxRows
    /\ policiesOut.buf[1].Error = ev.script[2].err

\* a policy of two conditions, the first failed, the second succeeded
C7_FailedFirst ==
    /\ ev.pc = "done"
    /\ Len(EvConditions) = 2
    /\ QueryFailed(1) /\ QuerySucceeded(2) /\ ev.script[2].rows = MaxRows
    /\ policiesOut.buf[1].TimeSeries >= MaxRows
    /\ policiesOut.buf[1].Error = ev.script[1].err

\* C10: an MQL, threshold or absence condition whose query returns k rows
\* without error adds exactly k times 0.03024 to the price and k to the
\* count of time series, the same for the three kinds of condition.
C10_SeriesIncrement ==
    \A i \in 1..(Len(ev.trace) - 1) :
        LET c == EvConditions[i]
            k == ev.script[i].rows
        IN  (c.variant \in {"mql", "threshold", "absent"} /\ ev.script[i].err = "") =>
                /\ ev.trace[i + 1].Price = FAdd(ev.trace[i].Price, Float(k * 302400))
                /\ ev.trace[i + 1].TimeSeries = ev.trace[i].TimeSeries + k

\* an MQL condition and a threshold condition, MaxRows rows each: the
\* price is the base of two conditions and 2 * MaxRows times 0.03024
C10_Witness ==
    /\ ev.pc = "done"
    /\ Len(EvConditions) = 2
    /\ EvConditions[1].variant = "mql" /\ EvConditions[2].variant = "threshold"
    /\ \A i \in 1..2 : ev.script[i] = [rows |-> MaxRows, err |-> ""]
    /\ ev.trace[3].Price = Float(2 * BasePrice + 2 * MaxRows * SeriesPrice)
    /\ ev.trace[3].TimeSeries = 2 * MaxRows

\* an absence condition with MaxRows rows
C10_AbsentRows ==
    /\ ev.pc = "done"
    /\ Len(EvConditions) = 1 /\ EvConditions[1].variant = "absent"
    /\ ev.script[1] = [rows |-> MaxRows, err |-> ""]
    /\ ev.trace[2].TimeSeries = MaxRows

-----------------------------------------------------------------------------
(* Further properties of processAlertPolicy (SpecEval).                    *)

\* the iterations of the loop over the conditions that have ended
EvIterations == 1..(Len(ev.trace) - 1)

\* the steps of the PromQL conditions, in the order of the conditions
RECURSIVE PqlStepsFrom(_)
PqlStepsFrom(i) ==
    IF i > Len(EvConditions) THEN <<>>
    ELSE IF EvConditions[i].variant = "pql"
    THEN <<EvConditions[i].seconds>> \o PqlStepsFrom(i + 1)
    ELSE PqlStepsFrom(i + 1)

IsQueryRange(call) == call.api = "QueryRange"

RECURSIVE StepsOf(_)
StepsOf(calls) ==
    IF calls = <<>> THEN <<>> ELSE <<Head(calls).Step>> \o StepsOf(Tail(calls))

\* C11: a PromQL condition of evaluation interval step whose range query
\* succeeds with N result series adds 0.9072 / step * N to the price (a
\* quotient that is not finite at step 0) and N to the count of time
\* series; for step 60 and N = 5 that is 0.0756 and 5.  The range query of
\* each PromQL condition is made with Step the evaluation interval.
C11_PqlIncrement ==
    /\ \A i \in EvIterations :
        LET c == EvConditions[i]
            N == ev.script[i].rows
            before == ev.trace[i]
            after == ev.trace[i + 1]
        IN  (c.variant = "pql" /\ ev.script[i].err = "") =>
                /\ after.TimeSeries = before.TimeSeries + N
                /\ (c.seconds # 0 /\ before.Price.cls = "fin") =>
                        after.Price = Float(before.Price.v + (9072000 \div c.seconds) * N)
                /\ c.seconds = 0 => after.Price.cls # "fin"
    /\ LET policyOut == NewPolicyOut(ev.alertPolicy)
           after == AddPqlSeries(policyOut, 60, 5)
       IN  /\ after.Price = Float(policyOut.Price.v + 756000)
           /\ after.TimeSeries = policyOut.TimeSeries + 5
    /\ ev.pc \in {"send", "done"} =>
            StepsOf(SelectSeq(ev.calls, IsQueryRange)) = PqlStepsFrom(1)

\* a PromQL condition of step 60 after an MQL condition, both answered
\* with MaxRows series
C11_Witness ==
    /\ ev.pc = "done"
    /\ Len(EvConditions) = 2
    /\ EvConditions[1].variant = "mql"
    /\ EvConditions[2].variant = "pql" /\ EvConditions[2].seconds = 60
    /\ \A i \in 1..2 : ev.script[i] = [rows |-> MaxRows, err |-> ""]
    /\ ev.trace[3].Price.v - ev.trace[2].Price.v = 151200 * MaxRows
    /\ ev.trace[3].TimeSeries - ev.trace[2].TimeSeries = MaxRows
    /\ SelectSeq(ev.calls, IsQueryRange) = <<[api |-> "QueryRange", Step |-> 60]>>

\* C12: every record starts, before any query is made, from a price of 1.5
\* per condition and a count of time series of 0; the record of a policy
\* without conditions is sent once, with price 0, count 0, no condition and
\* no error.
C12_BasePrice ==
    /\ Len(ev.trace) >= 1 =>
        /\ ev.trace[1].Price = Float(15000000 * Len(EvConditions))
        /\ ev.trace[1].TimeSeries = 0
        /\ ev.trace[1].Conditions = Len(EvConditions)
        /\ ev.trace[1].Error = ""
    /\ (ev.pc \notin {"off", "init"} /\ ev.calls = <<>>) => ev.policyOut = ev.trace[1]
    /\ (ev.pc \in {"off", "init"}) => ev.calls = <<>>
    /\ (ev.pc = "done" /\ Len(EvConditions) = 0) =>
        /\ Len(policiesOut.buf) = 1
        /\ policiesOut.buf[1].Price = Float(0)
        /\ policiesOut.buf[1].TimeSeries = 0
        /\ policiesOut.buf[1].Conditions = 0
        /\ policiesOut.buf[1].Error = ""
        /\ ev.calls = <<>>

\* the record of a policy without conditions has been sent
C12_Witness ==
    /\ ev.pc = "done"
    /\ Len(EvConditions) = 0
    /\ policiesOut.buf = <<NewPolicyOut(ev.alertPolicy)>>
    /\ policiesOut.buf[1].Price = Float(0)

\* a policy of two conditions is at its first query, nothing asked yet
C12_BaseOfTwo ==
    /\ ev.pc = "mql" /\ ev.i = 1
    /\ Len(EvConditions) = 2
    /\ ev.policyOut.Price = Float(2 * BasePrice)
    /\ ev.calls = <<>>

-----------------------------------------------------------------------------
(* Properties of the requests of processAlertPolicy (SpecEval).            *)

IsListTimeSeries(call) == call.api = "ListTimeSeries"

\* the request a threshold or absence condition is to make
ExpectedListRequest(c) ==
    LET aggregations == c.aggregations
        full == \/ Len(aggregations) = 0
                \/ aggregations[1] = "REDUCE_COUNT_FALSE"
                \/ (Len(aggregations) >= 2 /\ aggregations[2] = "REDUCE_COUNT_FALSE")
    IN  [api |-> "ListTimeSeries",
         Aggregation |-> IF Len(aggregations) >= 1 THEN <<aggregations[1]>> ELSE <<>>,
         SecondaryAggregation |->
            IF Len(aggregations) >= 2 THEN <<aggregations[2]>> ELSE <<>>,
         View |-> IF full THEN "FULL" ELSE "HEADERS"]

RECURSIVE ExpectedListRequestsFrom(_)
ExpectedListRequestsFrom(i) ==
    IF i > Len(EvConditions) THEN <<>>
    ELSE IF EvConditions[i].variant \in {"threshold", "absent"}
    THEN <<ExpectedListRequest(EvConditions[i])>> \o ExpectedListRequestsFrom(i + 1)
    ELSE ExpectedListRequestsFrom(i + 1)

\* C14: the time-series list request of a threshold or absence condition
\* asks for the full view if and only if the condition has no aggregation
\* or its first or second aggregation reduces with REDUCE_COUNT_FALSE, and
\* for the headers otherwise; the first aggregation is sent as Aggregation
\* and the second as SecondaryAggregation when present.
C14_ViewOfListRequest ==
    /\ \A k \in DOMAIN ev.calls :
            IsListTimeSeries(ev.calls[k]) => ev.calls[k].View \in {"FULL", "HEADERS"}
    /\ ev.pc \in {"send", "done"} =>
            SelectSeq(ev.calls, IsListTimeSeries) = ExpectedListRequestsFrom(1)

\* a threshold condition with REDUCE_SUM then REDUCE_COUNT_FALSE asked for
\* the full view
C14_Witness ==
    /\ ev.pc = "done"
    /\ Len(EvConditions) = 1 /\ EvConditions[1].variant = "threshold"
    /\ EvConditions[1].aggregations = <<"REDUCE_SUM", "REDUCE_COUNT_FALSE">>
    /\ ev.calls = <<[api |-> "ListTimeSeries", Aggregation |-> <<"REDUCE_SUM">>,
                     SecondaryAggregation |-> <<"REDUCE_COUNT_FALSE">>,
                     View |-> "FULL"]>>

\* an absence condition with REDUCE_SUM alone asked for the headers
C14_HeadersOnly ==
    /\ ev.pc = "done"
    /\ Len(EvConditions) = 1 /\ EvConditions[1].variant = "absent"
    /\ EvConditions[1].aggregations = <<"REDUCE_SUM">>
    /\ ev.calls[1].View = "HEADERS"
    /\ ev.calls[1].SecondaryAggregation = <<>>

\* a threshold condition without aggregation asked for the full view
C14_NoAggregation ==
    /\ ev.pc = "done"
    /\ Len(EvConditions) = 1 /\ EvConditions[1].variant = "threshold"
    /\ EvConditions[1].aggregations = <<>>
    /\ ev.calls[1].View = "FULL"

-----------------------------------------------------------------------------
(* Properties of listProjects (Spec).                                      *)

RootNames ==
    UNION {{Prefixed(kind, Roots(kind)[k]) : k \in DOMAIN Roots(kind)} :
                kind \in ParentKinds}

\* a scan of folders or organizations, whose generator has closed projectsIn
ParentScanDone ==
    /\ Len(folders) + Len(organizations) > 0
    /\ \A kind \in ParentKinds :
            Len(Roots(kind)) > 0 => genParents[kind].pc = "done"

TimesIn(seq, x) == Cardinality({k \in DOMAIN seq : seq[k] = x})

\* how often a complete scan from a parent is to send project p: the
\* projects of the parent and, in a recursive scan, those of the folders
\* beneath it, a folder of the exclusion set cutting off all beneath it
RECURSIVE ScanCount(_, _)
ScanCount(parent, p) ==
    IF AfterFirstSlash(parent) \in {Bare(e) : e \in excludedFolders} THEN 0
    ELSE LET children == ListFoldersResult(parent)
         IN  TimesIn(ListProjectsResult(parent), p)
             + (IF recursive
                THEN SumOver([k \in DOMAIN children |-> ScanCount(children[k], p)],
                             DOMAIN children)
                ELSE 0)

ExpectedSourced(p) ==
    LET roots == folders \o organizations
        names == [k \in DOMAIN roots |->
                    Prefixed(IF k <= Len(folders) THEN "folders" ELSE "organizations",
                             roots[k])]
    IN  SumOver([k \in DOMAIN names |-> ScanCount(names[k], p)], DOMAIN names)

\* C15: without recursive, a folder or organization root contributes only
\* its immediate projects: no folder is listed or descended into and no
\* project of a subfolder is sent on projectsIn.  With recursive, a scan
\* whose listings all complete also sends every project of every folder
\* beneath a root that the exclusion set does not cut off.
C15_RecursiveOrImmediate ==
    /\ (~recursive /\ Len(projects) = 0) =>
        /\ \A kind \in ParentKinds : Len(genParents[kind].stack) <= 1
        /\ hist.contributors \subseteq RootNames
        /\ \A f \in hist.cut : f.phase = "projects" /\ f.parent \in RootNames
        /\ \A p \in ProjectIds :
                hist.sourced[p] > 0 =>
                    \E root \in RootNames : TimesIn(ListProjectsResult(root), p) > 0
    /\ Len(projects) = 0 =>
            \A p \in ProjectIds : hist.sourced[p] <= ExpectedSourced(p)
    /\ (ParentScanDone /\ hist.cut = {}) =>
            \A p \in ProjectIds : hist.sourced[p] = ExpectedSourced(p)

\* a scan of the organization without recursive is over, no listing having
\* failed: its own project was sent, those of the folders beneath it not
C15_Witness ==
    /\ ~recursive /\ organizations = <<"o1">> /\ excludedFolders = {}
    /\ ParentScanDone /\ hist.cut = {}
    /\ hist.sourced["pa"] = 1
    /\ hist.sourced["pb"] = 0 /\ hist.sourced["pc"] = 0

\* a recursive scan of folders/f1 is over, no listing having failed: its
\* project and that of folders/f2 beneath it were sent
C15_RecursiveScan ==
    /\ recursive /\ folders = <<"f1">> /\ excludedFolders = {}
    /\ ParentScanDone /\ hist.cut = {}
    /\ hist.sourced["pb"] = 1 /\ hist.sourced["pc"] = 1
    /\ hist.sourced["pa"] = 0

-----------------------------------------------------------------------------
(* Further properties of the record of processAlertPolicy (SpecEval).      *)

\* the message of the last of the conditions 1..i whose query failed
RECURSIVE LastErrorUpTo(_)
LastErrorUpTo(i) ==
    IF i = 0 THEN ""
    ELSE IF QueryFailed(i) THEN ev.script[i].err
    ELSE LastErrorUpTo(i - 1)

\* C16: the Error of the record sent is the message of the last condition,
\* in the order of the conditions, whose query failed; it is empty if and
\* only if no query failed, and a condition that succeeds keeps the error
\* an earlier one recorded.
C16_LastErrorWins ==
    /\ \A i \in EvIterations :
            /\ ev.trace[i + 1].Error = LastErrorUpTo(i)
            /\ QuerySucceeded(i) => ev.trace[i + 1].Error = ev.trace[i].Error
    /\ ev.pc = "done" =>
            /\ policiesOut.buf[1].Error = LastErrorUpTo(Len(EvConditions))
            /\ policiesOut.buf[1].Error = ""
                    <=> ~\E i \in DOMAIN EvConditions : QueryFailed(i)

\* two conditions failed with two messages: the record has the second
C16_Witness ==
    /\ ev.pc = "done"
    /\ Len(EvConditions) = 2
    /\ QueryFailed(1) /\ QueryFailed(2)
    /\ ev.script[1].err # ev.script[2].err
    /\ policiesOut.buf[1].Error = ev.script[2].err

\* the first condition failed and the second succeeded: the record has the
\* message of the first
C16_ErrorKept ==
    /\ ev.pc = "done"
    /\ Len(EvConditions) = 2
    /\ QueryFailed(1) /\ QuerySucceeded(2)
    /\ policiesOut.buf[1].Error = ev.script[1].err
    /\ ev.trace[2].Error = ev.trace[3].Error

\* a <= b on float64: false when either is NaN
FLeq(a, b) ==
    /\ a.cls # "nan" /\ b.cls # "nan"
    /\ b.cls = "inf" \/ (a.cls = "fin" /\ b.cls = "fin" /\ a.v <= b.v)

\* the record as it is now is not below the record x
NotBelow(x) ==
    /\ FLeq(x.Price, ev.policyOut.Price)
    /\ x.TimeSeries <= ev.policyOut.TimeSeries

\* C17: during the evaluation of a policy, for any step and any answer,
\* the price and the count of time series of the record never decrease,
\* from one iteration to the next or within one.
C17_NeverDecreases ==
    /\ \A i \in EvIterations :
            /\ FLeq(ev.trace[i].Price, ev.trace[i + 1].Price)
            /\ ev.trace[i].TimeSeries <= ev.trace[i + 1].TimeSeries
    /\ Len(ev.trace) >= 1 => NotBelow(ev.trace[Len(ev.trace)])

\* with every PromQL step positive neither ever decreases
NeverDecreasesAtPositiveSteps ==
    (\A i \in DOMAIN EvConditions :
        EvConditions[i].variant = "pql" => EvConditions[i].seconds > 0)
    => C17_NeverDecreases

-----------------------------------------------------------------------------
(* Properties of two concurrent calls of processAlertPolicy (SpecPair).    *)

PeerConditions == ev.peer.alertPolicy.conditions

SentBy(policyOut) == \E k \in DOMAIN policiesOut.buf : policiesOut.buf[k] = policyOut

\* a record is sent when the loop over the conditions of its policy has
\* ended, and is then what that loop left
SentAfterAllConditions ==
    /\ Len(policiesOut.buf) =
            (IF ev.pc = "done" THEN 1 ELSE 0) + (IF ev.peer.pc = "done" THEN 1 ELSE 0)
    /\ ev.pc \in {"send", "done"} =>
            /\ ev.i = Len(EvConditions) + 1
            /\ Len(ev.trace) = Len(EvConditions) + 1
            /\ ev.policyOut = ev.trace[Len(EvConditions) + 1]
    /\ ev.pc = "done" => SentBy(ev.policyOut)
    /\ ev.peer.pc = "done" =>
            /\ ev.peer.i = Len(PeerConditions) + 1
            /\ SentBy(ev.peer.policyOut)

\* a step leaves the records sent, and the record of a worker that has
\* sent it, as they are; a step of one worker leaves the record of the
\* other as it is
SentRecordsKept ==
    /\ \A k \in DOMAIN policiesOut.buf :
            /\ k \in DOMAIN policiesOut'.buf
            /\ policiesOut'.buf[k] = policiesOut.buf[k]
    /\ ev.pc = "done" => ev'.policyOut = ev.policyOut
    /\ ev.peer.pc = "done" => ev'.peer.policyOut = ev.peer.policyOut
    /\ ev'.policyOut # ev.policyOut => ev'.peer = ev.peer
    /\ ev'.peer.policyOut # ev.peer.policyOut =>
            ev' = [ev EXCEPT !.peer = ev'.peer]

\* C18: the record of a policy is sent on policiesOut only after every one
\* of its conditions has been evaluated, succeeded, failed or skipped; only
\* the worker that evaluates the policy writes the record, and no field of
\* it changes once it is sent.
C18_SentOnceComplete == []SentAfterAllConditions /\ [][SentRecordsKept]_vars

\* two workers have evaluated two policies, the first of two conditions,
\* and both records are in policiesOut
C18_Witness ==
    /\ ev.pc = "done" /\ ev.peer.pc = "done"
    /\ Len(EvConditions) = 2
    /\ ev.peer.alertPolicy # ev.alertPolicy
    /\ Len(policiesOut.buf) = 2
    /\ SentBy(ev.trace[3]) /\ SentBy(ev.peer.policyOut)

-----------------------------------------------------------------------------
(* Properties of failed listings of listProjects (Spec).                   *)

\* a scan from one root calls listProjects at most once per parent
SingleRoot == Len(projects) = 0 /\ Len(folders) + Len(organizations) = 1

\* the projects a listing of frame f had still to yield when it failed
ProjectsFrom(f) ==
    {ListProjectsResult(f.parent)[k] : k \in f.k..Len(ListProjectsResult(f.parent))}

\* the projects in and beneath the folders of f.parent from the n-th on
ProjectsInFoldersFrom(f, n) ==
    UNION {ProjectsBeneath(ListFoldersResult(f.parent)[k]) :
                k \in n..Len(ListFoldersResult(f.parent))}

NoneSourced(S) == \A p \in S : hist.sourced[p] = 0

\* a failed listing yields nothing further: the projects a failed project
\* listing had still to yield, and the folders a failed folder listing had
\* still to yield, contribute nothing
FailedListingEndsThatListing ==
    SingleRoot =>
        \A f \in hist.cut :
            IF f.phase = "projects" THEN NoneSourced(ProjectsFrom(f))
            ELSE NoneSourced(ProjectsInFoldersFrom(f, f.k))

\* C19: when a listing at a parent fails, the parent contributes no further
\* children from that point on: after a failed project listing no further
\* project of the parent is sent and none of its folders is listed or
\* descended into, and after a failed folder listing no further folder is
\* descended into.
C19_FailedListingEndsParent ==
    SingleRoot =>
        \A f \in hist.cut :
            IF f.phase = "projects"
            THEN /\ NoneSourced(ProjectsFrom(f))
                 /\ NoneSourced(ProjectsInFoldersFrom(f, 1))
            ELSE NoneSourced(ProjectsInFoldersFrom(f, f.k))

-----------------------------------------------------------------------------
(* Properties of failed listings of listAlertPolicies (Spec).              *)

PoliciesOf(p) == ListAlertPoliciesResult(Prefixed("projects", p))

\* the listings of the policies of p that failed before yielding the k-th
CutUpTo(p, k) == SumOver([j \in 1..k |-> hist.listCut[p][j]], 1..k)

\* C20: when the listing of the policies of a project fails part-way, the
\* policies it yielded and admitted before are evaluated and produce
\* records, no further policy of the project is listed or sent, the
\* listings of the other projects are complete, and the worker that met the
\* failure stays in its loop and takes further projects.
C20_FailedListingTruncatesProject ==
    Len(policies) = 0 =>
        /\ main # "start" => Workers(pool2) = threads
        /\ pool2.done > 0 => projectsTested.closed
        /\ \A p \in ProjectIds : \A k \in DOMAIN PoliciesOf(p) :
            LET n == PoliciesOf(p)[k].name
                admitted == PoliciesOf(p)[k].enabled = "true" \/ includeDisabled
            IN  /\ hist.listed[n] <= hist.forwarded[p] - CutUpTo(p, k)
                /\ hist.emitted[n] <= hist.listed[n]
                /\ main = "done" =>
                    /\ hist.listed[n] = hist.forwarded[p] - CutUpTo(p, k)
                    /\ hist.emitted[n] = IF admitted THEN hist.listed[n] ELSE 0

\* the one worker of the second pool met a failure after the first policy
\* of pa and went on to list pc: the first policy of pa and that of pc have
\* their records, the second policy of pa was never listed
C20_Witness ==
    /\ main = "done"
    /\ Workers(pool2) = 1 /\ includeDisabled
    /\ hist.forwarded["pa"] = 1 /\ hist.forwarded["pc"] = 1
    /\ hist.listCut["pa"][2] = 1
    /\ hist.emitted[PolA1.name] = 1
    /\ hist.listed[PolA2.name] = 0 /\ hist.emitted[PolA2.name] = 0
    /\ hist.listCut["pc"][1] = 0
    /\ hist.emitted[PolC1.name] = 1

-----------------------------------------------------------------------------
(* The exclusion set and the scan roots (Spec).                            *)

\* the immediate child projects of a parent
ChildProjects(parent) ==
    {ListProjectsResult(parent)[k] : k \in DOMAIN ListProjectsResult(parent)}

\* C21: the exclusion set is applied only to a child folder about to be
\* descended into, never to a scan root: once a scan without a failed
\* listing is over, every immediate child project of every root, folder or
\* organization, was sent on projectsIn, whether or not the bare id of the
\* root is in the exclusion set.
C21_ExclusionSparesRoots ==
    (ParentScanDone /\ hist.cut = {}) =>
        \A root \in RootNames : \A p \in ChildProjects(root) : hist.sourced[p] > 0

\* the same of the roots the exclusion set does not hold
RootsNotExcludedAreScanned ==
    (ParentScanDone /\ hist.cut = {}) =>
        \A root \in RootNames :
            ~Excluded(root) => \A p \in ChildProjects(root) : hist.sourced[p] > 0

\* the scan of the one root folders/f1, which the exclusion set holds, is
\* over without a failed listing and has sent no project
ExcludedRootScanned ==
    /\ folders = <<"f1">> /\ excludedFolders = {"f1"}
    /\ ParentScanDone /\ hist.cut = {}
    /\ \A p \in ProjectIds : hist.sourced[p] = 0

-----------------------------------------------------------------------------
(* The capacity of the channels (Spec).                                    *)

\* C22: each of the four channels holds at most T items, T the configured
\* thread count: the capacity it was made with before any raise (while
\* nothing is started T is the thread count itself, afterwards the worker
\* count is T raised to the number of named projects or policies, and the
\* capacity is still T), and no send takes a buffer beyond it.
C22_QueuesHoldAtMostConfigured ==
    \A k \in 1..4 :
        LET ch == <<projectsIn, projectsTested, policiesIn, policiesOut>>[k] IN
        /\ ch.cap = ConfiguredParallelism
        /\ main = "start" => ch.cap = threads
        /\ main # "start" =>
                threads = IF NamedCount > ch.cap THEN NamedCount ELSE ch.cap
        /\ Len(ch.buf) <= ch.cap

\* two policies named at a configured thread count of 1: two workers per
\* pool, policiesIn full with one policy, the fetcher waiting to send the
\* second
C22_Witness ==
    /\ Len(policies) = 2 /\ threads = 2
    /\ policiesIn.cap = 1 /\ Len(policiesIn.buf) = 1
    /\ genPolicies.pending # Nil
    /\ ~ENABLED FetchSend

\* two projects named at a configured thread count of 1: projectsIn full,
\* the generator waiting to send
C22_RaisedByProjects ==
    /\ Len(projects) = 2 /\ threads = 2
    /\ projectsIn.cap = 1 /\ Len(projectsIn.buf) = 1
    /\ genProjects.i <= Len(projects)
    /\ ~ENABLED GenProjectsSend

-----------------------------------------------------------------------------
(* The order of the closes (Spec).                                         *)

\* a closed channel whose stage, the pool that sends on it, has ended:
\* every worker of the pool has left and the pool's input is closed and empty
StageEnded(pool, input) ==
    /\ main # "start" /\ AllLeft(pool)
    /\ Drained(input)

\* C23: the channels close in the order projectsIn, projectsTested,
\* policiesIn, policiesOut; the output of a stage is closed only when every
\* worker of the stage has left, and a worker leaves only when the input of
\* its stage is closed and empty; so when policiesOut is closed every
\* channel upstream is closed and empty, no worker holds an item, and every
\* project forwarded and every policy sent on policiesIn was taken, every
\* policy sent having its record.
C23_ClosesFollowStages ==
    /\ projectsTested.closed => StageEnded(pool1, projectsIn)
    /\ policiesIn.closed => projectsTested.closed /\ StageEnded(pool2, projectsTested)
    /\ policiesOut.closed => policiesIn.closed /\ StageEnded(pool3, policiesIn)
    /\ pool1.done > 0 => Drained(projectsIn)
    /\ pool2.done > 0 => Drained(projectsTested)
    /\ pool3.done > 0 => Drained(policiesIn)
    /\ coordinator = "wait1" => ~projectsTested.closed
    /\ coordinator = "wait2" => ~policiesIn.closed
    /\ coordinator = "wait3" => ~policiesOut.closed
    /\ policiesOut.closed =>
        /\ \A k \in 1..3 : BagCardinality(<<pool1, pool2, pool3>>[k].busy) = 0
        /\ \A p \in ProjectIds :
                hist.forwarded[p] <= hist.sourced[p]
        /\ \A n \in PolicyNames : hist.emitted[n] = hist.enqueued[n]

\* the recursive scan of the organization has shut down: the four channels
\* are closed, the three upstream of policiesOut empty, the three projects
\* were sent and forwarded, and the one admitted policy of each has its record
C23_Witness ==
    /\ organizations = <<"o1">> /\ recursive /\ ~testPermissions
    /\ coordinator = "done"
    /\ projectsIn.closed /\ projectsTested.closed /\ policiesIn.closed
    /\ policiesOut.closed
    /\ Total(hist.forwarded) = 3
    /\ Total(hist.emitted) >= 3

-----------------------------------------------------------------------------
(* The dispatch of processAlertPolicy (SpecEval).                          *)

\* the provider call of the branch of a condition
ApiOf(c) ==
    CASE c.variant = "mql" -> "QueryTimeSeries"
      [] c.variant = "pql" -> "QueryRange"
      [] c.variant \in {"threshold", "absent"} -> "ListTimeSeries"

\* the calls the conditions from the i-th on are to make, in order
RECURSIVE ExpectedApisFrom(_)
ExpectedApisFrom(i) ==
    IF i > Len(EvConditions) THEN <<>>
    ELSE IF Queried(EvConditions[i])
    THEN <<ApiOf(EvConditions[i])>> \o ExpectedApisFrom(i + 1)
    ELSE ExpectedApisFrom(i + 1)

\* C24: at most one branch runs per condition, the one of the variant the
\* condition holds: there is never more than one provider call per
\* condition begun, and at the send the calls made are, in order, the one
\* call of each condition of a recognized variant.  A condition of no
\* recognized variant makes no call and leaves the record as it was: no
\* time series, no price beyond the base, no error.
C24_OneBranchPerCondition ==
    /\ Len(ev.calls) <= Len(ev.trace)
    /\ ev.pc \in {"send", "done"} =>
            [k \in DOMAIN ev.calls |-> ev.calls[k].api] = ExpectedApisFrom(1)
    /\ \A i \in EvIterations :
            ~Queried(EvConditions[i]) => ev.trace[i + 1] = ev.trace[i]

\* a condition of no recognized variant, then an MQL one whose query
\* yields rows: the one call is the MQL query, and the first iteration
\* left the record as it was
C24_Witness ==
    /\ ev.pc = "done"
    /\ Len(EvConditions) = 2
    /\ EvConditions[1].variant = "none" /\ EvConditions[2].variant = "mql"
    /\ ev.script[1].rows > 0 /\ ev.script[2].rows > 0
    /\ Len(ev.calls) = 1 /\ ev.calls[1].api = "QueryTimeSeries"
    /\ ev.trace[2] = ev.trace[1]
    /\ ev.policyOut.TimeSeries = ev.script[2].rows

\* the one condition is of no recognized variant: no call, the base price
\* of one condition, no time series, no error
C24_Unrecognized ==
    /\ ev.pc = "done"
    /\ Len(EvConditions) = 1 /\ EvConditions[1].variant = "none"
    /\ ev.script[1].err # ""
    /\ ev.calls = <<>>
    /\ ev.policyOut.Price = Float(BasePrice)
    /\ ev.policyOut.TimeSeries = 0
    /\ ev.policyOut.Error = ""

-----------------------------------------------------------------------------
(* Conservation from projectsIn to policiesOut (Spec).                     *)

\* how often the roots are to send project p on projectsIn when no listing
\* of listProjects fails
OccurrencesOf(p) ==
    IF Len(projects) > 0 THEN TimesIn(projects, p) ELSE ExpectedSourced(p)

\* C26: nothing is lost, made up or merged on the way from projectsIn to
\* policiesOut.  When a scan has ended, each policy has as many records as
\* its project was sent on projectsIn, provided the permission gate lets
\* the project through and the enumerator admits the policy, less the
\* listings of the project that failed before reaching it, and no record
\* otherwise; at no time has a policy more records than its project has
\* occurrences.  With no failed listing the occurrences are those the roots
\* give: a project beneath two roots is sent, listed and evaluated twice.
C26_ConservedNeverMerged ==
    Len(policies) = 0 =>
        \A p \in ProjectIds :
            /\ hist.cut = {} => hist.sourced[p] <= OccurrencesOf(p)
            /\ (main = "done" /\ hist.cut = {}) => hist.sourced[p] = OccurrencesOf(p)
            /\ \A k \in DOMAIN PoliciesOf(p) :
                LET alertPolicy == PoliciesOf(p)[k]
                    n == alertPolicy.name
                    admitted == alertPolicy.enabled = "true" \/ includeDisabled
                IN  /\ hist.emitted[n] <= hist.sourced[p]
                    /\ main = "done" =>
                            hist.emitted[n] =
                                IF GateOpen(p) /\ admitted
                                THEN hist.sourced[p] - CutUpTo(p, k)
                                ELSE 0

\* folders/f1 and folders/f2, which lies in f1, are both roots of a
\* recursive scan that has ended without a failed listing: pc, the project
\* of f2, was sent twice and its policy has two records, pb and its policy
\* (which needs includeDisabled) one
C26_Witness ==
    /\ folders = <<"f1", "f2">> /\ recursive /\ excludedFolders = {}
    /\ ~testPermissions /\ includeDisabled
    /\ main = "done" /\ hist.cut = {}
    /\ CutUpTo("pc", 1) = 0 /\ CutUpTo("pb", 1) = 0
    /\ hist.sourced["pc"] = 2 /\ hist.emitted[PolC1.name] = 2
    /\ hist.sourced["pb"] = 1 /\ hist.emitted[PolB1.name] = 1
    /\ Total(hist.emitted) = 3

=============================================================================
